---- MODULE Spec2Model ----
(***************************************************************************)
(* ChaCha20 keystream engine of src/chacha20.c and src/chacha20_simd.c:    *)
(* the block core, the state initializer, the scalar, interleaved-4 and    *)
(* NEON 4-lane paths and the dispatcher, as a state machine over a byte    *)
(* memory, with the call frames of each invocation.                        *)
(*                                                                         *)
(* A uint32_t is the pair <<hi, lo>> of its 16-bit halves (value           *)
(* hi * 2^16 + lo), so that every operation keeps its 32-bit width.        *)
(* A uint8_t is a number in 0..255.                                        *)
(***************************************************************************)
EXTENDS Integers, Sequences, FiniteSets, TLC

\* v evaluated to a value before the evaluation goes on (the C code is strict)
Force(v) == v = v

-----------------------------------------------------------------------------
(* Bitwise operators of C on bytes, tabulated once.                        *)

\* bit i of the byte a
Bit(a, i) == (a \div (2 ^ i)) % 2

\* a ^ b on uint8_t
XorByte(a, b) ==
    ((Bit(a, 0) + Bit(b, 0)) % 2) + (2 * ((Bit(a, 1) + Bit(b, 1)) % 2))
  + (4 * ((Bit(a, 2) + Bit(b, 2)) % 2)) + (8 * ((Bit(a, 3) + Bit(b, 3)) % 2))
  + (16 * ((Bit(a, 4) + Bit(b, 4)) % 2)) + (32 * ((Bit(a, 5) + Bit(b, 5)) % 2))
  + (64 * ((Bit(a, 6) + Bit(b, 6)) % 2)) + (128 * ((Bit(a, 7) + Bit(b, 7)) % 2))

\* a | b on uint8_t
OrByte(a, b) ==
    ((Bit(a, 0) + Bit(b, 0) + 1) \div 2) + (2 * ((Bit(a, 1) + Bit(b, 1) + 1) \div 2))
  + (4 * ((Bit(a, 2) + Bit(b, 2) + 1) \div 2)) + (8 * ((Bit(a, 3) + Bit(b, 3) + 1) \div 2))
  + (16 * ((Bit(a, 4) + Bit(b, 4) + 1) \div 2)) + (32 * ((Bit(a, 5) + Bit(b, 5) + 1) \div 2))
  + (64 * ((Bit(a, 6) + Bit(b, 6) + 1) \div 2)) + (128 * ((Bit(a, 7) + Bit(b, 7) + 1) \div 2))

XorTab == SubSeq([a \in 1..256 |-> SubSeq([b \in 1..256 |-> XorByte(a - 1, b - 1)], 1, 256)], 1, 256)
OrTab == SubSeq([a \in 1..256 |-> SubSeq([b \in 1..256 |-> OrByte(a - 1, b - 1)], 1, 256)], 1, 256)

\* a ^ b on uint8_t, by table
XOR8(a, b) == XorTab[a + 1][b + 1]
\* a | b on uint8_t, by table
OR8(a, b) == OrTab[a + 1][b + 1]

XOR16(a, b) == (XOR8(a \div 256, b \div 256) * 256) + XOR8(a % 256, b % 256)
OR16(a, b) == (OR8(a \div 256, b \div 256) * 256) + OR8(a % 256, b % 256)

-----------------------------------------------------------------------------
(* uint32_t arithmetic.                                                    *)

U32(hi, lo) == <<hi, lo>>
\* the uint32_t of a small non-negative int
ToU32(n) == <<n \div 65536, n % 65536>>

\* a + b, modulo 2^32
ADD32(a, b) ==
    LET lo == a[2] + b[2]
    IN <<(a[1] + b[1] + (lo \div 65536)) % 65536, lo % 65536>>

\* a ^ b
XOR32(a, b) == <<XOR16(a[1], b[1]), XOR16(a[2], b[2])>>

\* a | b
OR32(a, b) == <<OR16(a[1], b[1]), OR16(a[2], b[2])>>

\* x << r on uint32_t, 0 < r < 32: the bits shifted out are lost
SHL32(x, r) ==
    IF r < 16
    THEN LET lo == x[2] * (2 ^ r)
         IN <<((x[1] * (2 ^ r)) + (lo \div 65536)) % 65536, lo % 65536>>
    ELSE <<(x[2] * (2 ^ (r - 16))) % 65536, 0>>

\* x >> r on uint32_t, 0 < r < 32
SHR32(x, r) ==
    IF r < 16
    THEN <<x[1] \div (2 ^ r), (x[2] \div (2 ^ r)) + ((x[1] % (2 ^ r)) * (2 ^ (16 - r)))>>
    ELSE <<0, x[1] \div (2 ^ (r - 16))>>

ROTL32(x, r) == OR32(SHL32(x, r), SHR32(x, 32 - r))

\* (uint8_t)v, (uint8_t)(v >> 8), (uint8_t)(v >> 16), (uint8_t)(v >> 24)
store32_le(v) == <<v[2] % 256, v[2] \div 256, v[1] % 256, v[1] \div 256>>

\* load32_le with the bytes taken most significant first
load32_be(p, o) == <<p[o + 2] + (p[o + 1] * 256), p[o + 4] + (p[o + 3] * 256)>>

\* p[0] | p[1] << 8 | p[2] << 16 | p[3] << 24 of the 4 bytes at offset o of p
load32_le(p, o) == <<p[o + 3] + (p[o + 4] * 256), p[o + 1] + (p[o + 2] * 256)>>

-----------------------------------------------------------------------------
(* Block core and state initializer.                                       *)

\* a += b; d ^= a; d = ROTL32(d, r): the statements the macro QUARTERROUND
\* repeats four times, on the words a, b, d (indices from 0) of x
AddXorRotl(x, a, b, d, r) ==
    LET s == ADD32(x[a + 1], x[b + 1])
    IN [x EXCEPT ![a + 1] = s, ![d + 1] = ROTL32(XOR32(@, s), r)]

\* The macro QUARTERROUND on the words a, b, c, d (indices from 0) of x:
\* a += b; d ^= a; d = ROTL32(d, 16);  c += d; b ^= c; b = ROTL32(b, 12);
\* a += b; d ^= a; d = ROTL32(d, 8);   c += d; b ^= c; b = ROTL32(b, 7)
QUARTERROUND(x, a, b, c, d) ==
    AddXorRotl(AddXorRotl(AddXorRotl(AddXorRotl(x, a, b, d, 16),
                                     c, d, b, 12),
                          a, b, d, 8),
               c, d, b, 7)

\* The four column rounds of one loop iteration
ColumnRounds(x) ==
    QUARTERROUND(QUARTERROUND(QUARTERROUND(QUARTERROUND(x, 0, 4, 8, 12),
                                           1, 5, 9, 13),
                              2, 6, 10, 14),
                 3, 7, 11, 15)

\* The four diagonal rounds of one loop iteration
DiagonalRounds(x) ==
    QUARTERROUND(QUARTERROUND(QUARTERROUND(QUARTERROUND(x, 0, 5, 10, 15),
                                           1, 6, 11, 12),
                              2, 7, 8, 13),
                 3, 4, 9, 14)

\* The body of the loop of chacha20_block
DoubleRound(x) == DiagonalRounds(ColumnRounds(x))

\* for (int i = 0; i < n; i++) { column rounds; diagonal rounds }, on the
\* copy x of the input
RECURSIVE Rounds(_, _)
Rounds(x, n) ==
    IF n = 0 THEN x
    ELSE LET y == DoubleRound(x)
         IN IF Force(y) THEN Rounds(y, n - 1) ELSE x

\* Rounds10 with the loop bound i < 9
Rounds9(x) == Rounds(x, 9)

\* for (int i = 0; i < 10; i++) of chacha20_block
Rounds10(x) == Rounds(x, 10)

\* The bytes of 16 words, each stored little-endian: byte i (from 0) is byte
\* i mod 4 of word i div 4
Serialize(ws) == [i \in 1..64 |-> store32_le(ws[((i - 1) \div 4) + 1])[((i - 1) % 4) + 1]]

\* chacha20_block: the 64 bytes written to out for the 16 words of input
chacha20_block(input) ==
    LET x == Rounds10(input)
    IN SubSeq(Serialize([w \in 1..16 |-> ADD32(x[w], input[w])]), 1, 64)

\* chacha20_init_state without the assignment state[12] = counter
chacha20_init_stateNoCounter(key, nonce, counter) ==
    <<U32(24944, 30821), U32(13088, 25710), U32(31074, 11570), U32(27424, 25972),
      load32_le(key, 0), load32_le(key, 4), load32_le(key, 8), load32_le(key, 12),
      load32_le(key, 16), load32_le(key, 20), load32_le(key, 24), load32_le(key, 28),
      U32(0, 0),
      load32_le(nonce, 0), load32_le(nonce, 4), load32_le(nonce, 8)>>

\* chacha20_init_state: the 16 words of state
chacha20_init_state(key, nonce, counter) ==
    <<U32(24944, 30821), U32(13088, 25710), U32(31074, 11570), U32(27424, 25972),
      load32_le(key, 0), load32_le(key, 4), load32_le(key, 8), load32_le(key, 12),
      load32_le(key, 16), load32_le(key, 20), load32_le(key, 24), load32_le(key, 28),
      counter,
      load32_le(nonce, 0), load32_le(nonce, 4), load32_le(nonce, 8)>>

\* CounterAdd that stops at 0xFFFFFFFF instead of wrapping
CounterAddSaturating(counter, n) ==
    IF counter[1] = 65535 /\ counter[2] + n > 65535 THEN U32(65535, 65535)
    ELSE ADD32(counter, ToU32(n))

\* counter + n on uint32_t: counter + k, counter += 4, counter++, state[12]++
CounterAdd(counter, n) == ADD32(counter, ToU32(n))

\* MoreBytes with len >= 0, which a size_t always satisfies
MoreBytesAlways(len) == len >= 0

\* The loop condition len > 0 of the scalar loop and of the tail loop
MoreBytes(len) == len > 0

-----------------------------------------------------------------------------
(* NEON intrinsics on uint32x4_t, a vector of 4 lanes <<l0, l1, l2, l3>>.  *)

vdupq_n_u32(v) == <<v, v, v, v>>
vaddq_u32(a, b) == SubSeq([l \in 1..4 |-> ADD32(a[l], b[l])], 1, 4)
veorq_u32(a, b) == SubSeq([l \in 1..4 |-> XOR32(a[l], b[l])], 1, 4)
vorrq_u32(a, b) == SubSeq([l \in 1..4 |-> OR32(a[l], b[l])], 1, 4)
vshlq_n_u32(v, n) == SubSeq([l \in 1..4 |-> SHL32(v[l], n)], 1, 4)
vshrq_n_u32(v, n) == SubSeq([l \in 1..4 |-> SHR32(v[l], n)], 1, 4)
vgetq_lane_u32(v, lane) == v[lane + 1]

ROTL16(v) == vorrq_u32(vshlq_n_u32(v, 16), vshrq_n_u32(v, 16))
\* ROTL12 with the right shift of ROTL16
ROTL12Shr16(v) == vorrq_u32(vshlq_n_u32(v, 12), vshrq_n_u32(v, 16))
ROTL12(v) == vorrq_u32(vshlq_n_u32(v, 12), vshrq_n_u32(v, 20))
ROTL8(v) == vorrq_u32(vshlq_n_u32(v, 8), vshrq_n_u32(v, 24))
\* ROTL7 with the right shift of ROTL8
ROTL7Shr24(v) == vorrq_u32(vshlq_n_u32(v, 7), vshrq_n_u32(v, 24))
ROTL7(v) == vorrq_u32(vshlq_n_u32(v, 7), vshrq_n_u32(v, 25))

\* a = vaddq_u32(a, b); d = veorq_u32(d, a): the statements the macro
\* NEON_QR repeats four times, each time followed by a rotate of d, on the
\* vectors a, b, d (indices from 0) of x
NeonAddXor(x, a, b, d) ==
    LET s == vaddq_u32(x[a + 1], x[b + 1])
    IN [x EXCEPT ![a + 1] = s, ![d + 1] = veorq_u32(@, s)]

\* The macro NEON_QR on the vectors a, b, c, d (indices from 0) of x:
\* a = a + b; d = d ^ a; d = ROTL16(d);  c = c + d; b = b ^ c; b = ROTL12(b);
\* a = a + b; d = d ^ a; d = ROTL8(d);   c = c + d; b = b ^ c; b = ROTL7(b)
NEON_QR(x, a, b, c, d) ==
    [NeonAddXor(
       [NeonAddXor(
          [NeonAddXor(
             [NeonAddXor(x, a, b, d) EXCEPT ![d + 1] = ROTL16(@)],
             c, d, b) EXCEPT ![b + 1] = ROTL12(@)],
          a, b, d) EXCEPT ![d + 1] = ROTL8(@)],
       c, d, b) EXCEPT ![b + 1] = ROTL7(@)]

\* The body of the rounds loop of chacha20_xor_neon4: 4 column rounds, then
\* 4 diagonal rounds
NeonDoubleRound(x) ==
    NEON_QR(NEON_QR(NEON_QR(NEON_QR(
        NEON_QR(NEON_QR(NEON_QR(NEON_QR(x, 0, 4, 8, 12),
                                1, 5, 9, 13),
                        2, 6, 10, 14),
                3, 7, 11, 15),
        0, 5, 10, 15), 1, 6, 11, 12), 2, 7, 8, 13), 3, 4, 9, 14)

\* for (int i = 0; i < n; i++) of chacha20_xor_neon4, on the working copy x
RECURSIVE NeonRounds(_, _)
NeonRounds(x, n) ==
    IF n = 0 THEN x
    ELSE LET y == NeonDoubleRound(x)
         IN IF Force(y) THEN NeonRounds(y, n - 1) ELSE x

\* for (int i = 0; i < 10; i++) of chacha20_xor_neon4
NeonRounds10(x) == NeonRounds(x, 10)

\* NeonInput with the counter of lane 2 in lane 3 too
NeonInputLanes(key, nonce, counter) ==
    <<vdupq_n_u32(U32(24944, 30821)), vdupq_n_u32(U32(13088, 25710)),
      vdupq_n_u32(U32(31074, 11570)), vdupq_n_u32(U32(27424, 25972)),
      vdupq_n_u32(load32_le(key, 0)), vdupq_n_u32(load32_le(key, 4)),
      vdupq_n_u32(load32_le(key, 8)), vdupq_n_u32(load32_le(key, 12)),
      vdupq_n_u32(load32_le(key, 16)), vdupq_n_u32(load32_le(key, 20)),
      vdupq_n_u32(load32_le(key, 24)), vdupq_n_u32(load32_le(key, 28)),
      <<counter, ADD32(counter, ToU32(1)), ADD32(counter, ToU32(2)), ADD32(counter, ToU32(2))>>,
      vdupq_n_u32(load32_le(nonce, 0)), vdupq_n_u32(load32_le(nonce, 4)),
      vdupq_n_u32(load32_le(nonce, 8))>>

\* NeonInput with the lane counters added with saturation
NeonInputSaturating(key, nonce, counter) ==
    <<vdupq_n_u32(U32(24944, 30821)), vdupq_n_u32(U32(13088, 25710)),
      vdupq_n_u32(U32(31074, 11570)), vdupq_n_u32(U32(27424, 25972)),
      vdupq_n_u32(load32_le(key, 0)), vdupq_n_u32(load32_le(key, 4)),
      vdupq_n_u32(load32_le(key, 8)), vdupq_n_u32(load32_le(key, 12)),
      vdupq_n_u32(load32_le(key, 16)), vdupq_n_u32(load32_le(key, 20)),
      vdupq_n_u32(load32_le(key, 24)), vdupq_n_u32(load32_le(key, 28)),
      <<counter, CounterAddSaturating(counter, 1), CounterAddSaturating(counter, 2),
        CounterAddSaturating(counter, 3)>>,
      vdupq_n_u32(load32_le(nonce, 0)), vdupq_n_u32(load32_le(nonce, 4)),
      vdupq_n_u32(load32_le(nonce, 8))>>

\* The 16 input vectors in0..in15 of one super-block of chacha20_xor_neon4
NeonInput(key, nonce, counter) ==
    <<vdupq_n_u32(U32(24944, 30821)), vdupq_n_u32(U32(13088, 25710)),
      vdupq_n_u32(U32(31074, 11570)), vdupq_n_u32(U32(27424, 25972)),
      vdupq_n_u32(load32_le(key, 0)), vdupq_n_u32(load32_le(key, 4)),
      vdupq_n_u32(load32_le(key, 8)), vdupq_n_u32(load32_le(key, 12)),
      vdupq_n_u32(load32_le(key, 16)), vdupq_n_u32(load32_le(key, 20)),
      vdupq_n_u32(load32_le(key, 24)), vdupq_n_u32(load32_le(key, 28)),
      <<counter, CounterAdd(counter, 1), CounterAdd(counter, 2), CounterAdd(counter, 3)>>,
      vdupq_n_u32(load32_le(nonce, 0)), vdupq_n_u32(load32_le(nonce, 4)),
      vdupq_n_u32(load32_le(nonce, 8))>>

\* The vectors xs[0..15] after the rounds and the feed-forward
NeonFeedForward(in) ==
    LET x == NeonRounds10(in)
    IN IF Force(x) THEN [w \in 1..16 |-> vaddq_u32(x[w], in[w])] ELSE in

\* NeonGather with lane 3 - i gathered into ks[i]
NeonGatherLanesReversed(xs) ==
    LET ksl(lane) == SubSeq(Serialize([w \in 1..16 |-> vgetq_lane_u32(xs[w], lane)]), 1, 64)
    IN <<ksl(3), ksl(2), ksl(1), ksl(0)>>

\* The gather: ks[lane] is the little-endian bytes of lane `lane` of xs[0..15]
NeonGather(xs) ==
    LET ksl(lane) == SubSeq(Serialize([w \in 1..16 |-> vgetq_lane_u32(xs[w], lane)]), 1, 64)
    IN <<ksl(0), ksl(1), ksl(2), ksl(3)>>

\* ks[4][64] of one super-block of chacha20_xor_neon4
NeonKeystream4(key, nonce, counter) ==
    NeonGather(NeonFeedForward(NeonInput(key, nonce, counter)))

-----------------------------------------------------------------------------
(* Inputs of the calls.                                                    *)

\* Largest buffer length
MaxLen == 1024
\* Number of input byte patterns
NumPatterns == 2
\* Largest block index at which a buffer is split into two calls
MaxSplit == 4
\* Bytes each buffer has beyond the length the calls are given
Slack == 1

\* key and nonce of chacha_main.c, and of RFC 8439 section 2.4.2
KeyZero == SubSeq([i \in 1..32 |-> 0], 1, 32)
KeyRFC == SubSeq([i \in 1..32 |-> i - 1], 1, 32)
NonceZero == SubSeq([i \in 1..12 |-> 0], 1, 12)
NonceRFC == <<0, 0, 0, 0, 0, 0, 0, 74, 0, 0, 0, 0>>
Keys == {KeyZero, KeyRFC}
Nonces == {NonceZero, NonceRFC}

\* 1, 0xFFFFFFFE, 0xFFFFFFFF
Counters == {U32(0, 1), U32(65535, 65534), U32(65535, 65535)}

Lens == {0, 1, 63, 64, 65, 114, 255, 256, 257, MaxLen}

\* "Ladies and Gentlemen of the class of '99: If I could offer you only one
\* tip for the future, sunscreen would be it."
RfcPlaintext ==
    <<76, 97, 100, 105, 101, 115, 32, 97, 110, 100, 32, 71, 101, 110, 116, 108,
      101, 109, 101, 110, 32, 111, 102, 32, 116, 104, 101, 32, 99, 108, 97, 115,
      115, 32, 111, 102, 32, 39, 57, 57, 58, 32, 73, 102, 32, 73, 32, 99, 111,
      117, 108, 100, 32, 111, 102, 102, 101, 114, 32, 121, 111, 117, 32, 111,
      110, 108, 121, 32, 111, 110, 101, 32, 116, 105, 112, 32, 102, 111, 114,
      32, 116, 104, 101, 32, 102, 117, 116, 117, 114, 101, 44, 32, 115, 117,
      110, 115, 99, 114, 101, 101, 110, 32, 119, 111, 117, 108, 100, 32, 98,
      101, 32, 105, 116, 46>>

\* The published ciphertext of RFC 8439 section 2.4.2
RfcCiphertext ==
    <<110, 46, 53, 154, 37, 104, 249, 128, 65, 186, 7, 40, 221, 13, 105, 129,
      233, 126, 122, 236, 29, 67, 96, 194, 10, 39, 175, 204, 253, 159, 174, 11,
      249, 27, 101, 197, 82, 71, 51, 171, 143, 89, 61, 171, 205, 98, 179, 87,
      22, 57, 214, 36, 230, 81, 82, 171, 143, 83, 12, 53, 159, 8, 97, 216,
      7, 202, 13, 191, 80, 13, 106, 97, 86, 163, 142, 8, 138, 34, 182, 94,
      82, 188, 81, 77, 22, 204, 248, 6, 129, 140, 233, 26, 183, 121, 55, 54,
      90, 249, 11, 191, 116, 163, 91, 230, 180, 11, 142, 237, 242, 120, 94, 66,
      135, 77>>

\* Input pattern s of length n: pattern 0 repeats the RFC plaintext
Pattern(s, n) ==
    SubSeq([i \in 1..n |-> IF s = 0 THEN RfcPlaintext[((i - 1) % 114) + 1]
                                    ELSE (255 + (85 * s) - ((i * ((2 * s) + 1)) % 256)) % 256], 1, n)

\* The inputs tried: every length on the RFC key and nonce, the short
\* lengths on every key, nonce and pattern
Inputs ==
    {i \in [key : Keys, nonce : Nonces, counter : Counters,
            pat : 0..(NumPatterns - 1), len : Lens] :
        \/ i.key = KeyRFC /\ i.nonce = NonceRFC /\ i.pat = 0
        \/ i.len <= 65 /\ i.counter = U32(0, 1)}

-----------------------------------------------------------------------------
(* State.                                                                  *)

VARIABLES
    HAVE_NEON,  \* 1 when the build has NEON (the macro HAVE_NEON), else 0
    input,      \* the key, nonce, counter, pattern and length the caller chose
    mem,        \* the byte buffers, by name
    stack,      \* stack[t]: the call frames of thread t, the running one last
    arr,        \* the local arrays of the frames, by storage slot
    log,        \* log[t]: what the current call of thread t did so far
    phase,      \* the last call the caller started
    sel         \* the path and the split point of the caller's last choice

vars == <<HAVE_NEON, input, mem, stack, arr, log, phase, sel>>

Threads == {1, 2}
\* A call is at most 3 frames deep: best, neon4, interleaved4
Slots == Threads \X (1..3)

\* A pointer: a buffer and an offset into it
Ptr(b, o) == [buf |-> b, off |-> o]
PtrAdd(p, n) == [buf |-> p.buf, off |-> p.off + n]

Zeros(n) == SubSeq([i \in 1..n |-> 0], 1, n)
\* An output buffer before any call: n bytes 0xAA
Fill(n) == SubSeq([i \in 1..n |-> 170], 1, n)

\* The arrays of a frame that has stored nothing yet
Blank == [st |-> <<>>, buf |-> Zeros(64),
          blocks |-> <<Zeros(64), Zeros(64), Zeros(64), Zeros(64)>>]

\* Storage with the arrays declared static: one slot for every invocation
StorageStatic(t, d) == <<1, 1>>

\* The slot of the local arrays of frame d of thread t: automatic storage,
\* one per invocation
Storage(t, d) == <<t, d>>

Depth(t) == Len(stack[t])
Top(t) == stack[t][Len(stack[t])]
Slot(t) == Storage(t, Depth(t))
Running(t, fn, pc) == Depth(t) > 0 /\ Top(t).fn = fn /\ Top(t).pc = pc

FirstPc(fn) == IF fn = "chacha20_xor" THEN "init"
               ELSE IF fn = "chacha20_xor_best" THEN "dispatch"
               ELSE "loop"

\* The frame of a call fn(out, in, len, key, nonce, counter) at its entry
Frame(fn, out, in, len, counter) ==
    [fn |-> fn, pc |-> FirstPc(fn), out |-> out, in |-> in, len |-> len,
     key |-> "key", nonce |-> "nonce", counter |-> counter, off |-> 0, k |-> 0]

SetTop(t, f) == [stack EXCEPT ![t] = [@ EXCEPT ![Len(@)] = f]]
\* The caller frame becomes f and the callee frame g is entered
Push(t, f, g) == [stack EXCEPT ![t] = Append([@ EXCEPT ![Len(@)] = f], g)]
Pop(t) == [stack EXCEPT ![t] = SubSeq(@, 1, Len(@) - 1)]
Logged(t, e) == [log EXCEPT ![t] = Append(@, e)]

Min(a, b) == IF a < b THEN a ELSE b

\* XorStore with | for ^
XorStoreOr(m, out, in, ks, n) ==
    LET src == m[in.buf]
        dst == m[out.buf]
    IN [m EXCEPT ![out.buf] =
          SubSeq([j \in 1..Len(dst) |->
                    IF j > out.off /\ j <= out.off + n
                    THEN OR8(src[in.off + (j - out.off)], ks[j - out.off])
                    ELSE dst[j]], 1, Len(dst))]

\* XorStore in two passes: the keystream is stored to out, then the input
\* is XORed into out
XorStoreTwoPass(m, out, in, ks, n) ==
    LET dst == m[out.buf]
        m1 == [m EXCEPT ![out.buf] =
                 SubSeq([j \in 1..Len(dst) |->
                           IF j > out.off /\ j <= out.off + n
                           THEN ks[j - out.off] ELSE dst[j]], 1, Len(dst))]
        src == m1[in.buf]
        mid == m1[out.buf]
    IN [m1 EXCEPT ![out.buf] =
          SubSeq([j \in 1..Len(mid) |->
                    IF j > out.off /\ j <= out.off + n
                    THEN XOR8(mid[j], src[in.off + (j - out.off)])
                    ELSE mid[j]], 1, Len(mid))]

\* XorStore with + for ^
XorStoreAdd(m, out, in, ks, n) ==
    LET src == m[in.buf]
        dst == m[out.buf]
    IN [m EXCEPT ![out.buf] =
          SubSeq([j \in 1..Len(dst) |->
                    IF j > out.off /\ j <= out.off + n
                    THEN (src[in.off + (j - out.off)] + ks[j - out.off]) % 256
                    ELSE dst[j]], 1, Len(dst))]

\* for (i = 0; i < n; i++) out[i] = in[i] ^ ks[i], on the memory m; out and
\* in are either the same address or do not overlap
XorStore(m, out, in, ks, n) ==
    LET src == m[in.buf]
        dst == m[out.buf]
    IN [m EXCEPT ![out.buf] =
          SubSeq([j \in 1..Len(dst) |->
                    IF j > out.off /\ j <= out.off + n
                    THEN XOR8(src[in.off + (j - out.off)], ks[j - out.off])
                    ELSE dst[j]], 1, Len(dst))]

BlockEvent(fn, st) == [op |-> "block", fn |-> fn, st |-> st]
XorEvent(fn, out, in, n) == [op |-> "xor", fn |-> fn, out |-> out, in |-> in, n |-> n]
CallEvent(f) == [op |-> "call", fn |-> f.fn, out |-> f.out, in |-> f.in,
                 len |-> f.len, key |-> f.key, nonce |-> f.nonce,
                 counter |-> f.counter]

-----------------------------------------------------------------------------
(* chacha20_xor of chacha20.c: the scalar path.                            *)

\* The state chacha20_xor builds before its loop
ScalarState(key, nonce, counter) ==
    <<load32_le(<<101, 120, 112, 97>>, 0), load32_le(<<110, 100, 32, 51>>, 0),
      load32_le(<<50, 45, 98, 121>>, 0), load32_le(<<116, 101, 32, 107>>, 0),
      load32_le(key, 0), load32_le(key, 4), load32_le(key, 8), load32_le(key, 12),
      load32_le(key, 16), load32_le(key, 20), load32_le(key, 24), load32_le(key, 28),
      counter,
      load32_le(nonce, 0), load32_le(nonce, 4), load32_le(nonce, 8)>>

ScalarInit(t) ==
    /\ Running(t, "chacha20_xor", "init")
    /\ LET f == Top(t)
       IN /\ arr' = [arr EXCEPT ![Slot(t)].st =
                        ScalarState(mem[f.key], mem[f.nonce], f.counter)]
          /\ stack' = SetTop(t, [f EXCEPT !.pc = "loop", !.off = 0])
    /\ UNCHANGED <<HAVE_NEON, input, mem, log, phase, sel>>

\* while (len > 0): chacha20_block(block, state)
ScalarBlock(t) ==
    /\ Running(t, "chacha20_xor", "loop")
    /\ MoreBytes(Top(t).len)
    /\ LET f == Top(t)
           st == arr[Slot(t)].st
       IN /\ arr' = [arr EXCEPT ![Slot(t)].buf = chacha20_block(st)]
          /\ stack' = SetTop(t, [f EXCEPT !.pc = "xor"])
          /\ log' = Logged(t, BlockEvent(f.fn, st))
    /\ UNCHANGED <<HAVE_NEON, input, mem, phase, sel>>

\* ScalarXor with the increment on state[13], the first word of the nonce
ScalarXorBumpsNonce(t) ==
    /\ Running(t, "chacha20_xor", "xor")
    /\ LET f == Top(t)
           chunk == Min(f.len, 64)
           out == PtrAdd(f.out, f.off)
           in == PtrAdd(f.in, f.off)
       IN /\ mem' = XorStore(mem, out, in, arr[Slot(t)].buf, chunk)
          /\ arr' = [arr EXCEPT ![Slot(t)].st[14] = CounterAdd(@, 1)]
          /\ stack' = SetTop(t, [f EXCEPT !.pc = "loop", !.len = @ - chunk,
                                          !.off = @ + chunk])
          /\ log' = Logged(t, XorEvent(f.fn, out, in, chunk))
    /\ UNCHANGED <<HAVE_NEON, input, phase, sel>>

\* ScalarXor with state[12]++ only after a region of 64 bytes
ScalarXorFullOnly(t) ==
    /\ Running(t, "chacha20_xor", "xor")
    /\ LET f == Top(t)
           chunk == Min(f.len, 64)
           out == PtrAdd(f.out, f.off)
           in == PtrAdd(f.in, f.off)
       IN /\ mem' = XorStore(mem, out, in, arr[Slot(t)].buf, chunk)
          /\ arr' = [arr EXCEPT ![Slot(t)].st[13] = IF chunk = 64 THEN CounterAdd(@, 1) ELSE @]
          /\ stack' = SetTop(t, [f EXCEPT !.pc = "loop", !.len = @ - chunk,
                                          !.off = @ + chunk])
          /\ log' = Logged(t, XorEvent(f.fn, out, in, chunk))
    /\ UNCHANGED <<HAVE_NEON, input, phase, sel>>

\* ScalarXor with chunks of at most 32 bytes
ScalarXorHalfBlock(t) ==
    /\ Running(t, "chacha20_xor", "xor")
    /\ LET f == Top(t)
           chunk == Min(f.len, 32)
           out == PtrAdd(f.out, f.off)
           in == PtrAdd(f.in, f.off)
       IN /\ mem' = XorStore(mem, out, in, arr[Slot(t)].buf, chunk)
          /\ arr' = [arr EXCEPT ![Slot(t)].st[13] = CounterAdd(@, 1)]
          /\ stack' = SetTop(t, [f EXCEPT !.pc = "loop", !.len = @ - chunk,
                                          !.off = @ + chunk])
          /\ log' = Logged(t, XorEvent(f.fn, out, in, chunk))
    /\ UNCHANGED <<HAVE_NEON, input, phase, sel>>

\* the XOR of the chunk, len -= chunk, offset += chunk, state[12]++
ScalarXor(t) ==
    /\ Running(t, "chacha20_xor", "xor")
    /\ LET f == Top(t)
           chunk == Min(f.len, 64)
           out == PtrAdd(f.out, f.off)
           in == PtrAdd(f.in, f.off)
       IN /\ mem' = XorStore(mem, out, in, arr[Slot(t)].buf, chunk)
          /\ arr' = [arr EXCEPT ![Slot(t)].st[13] = CounterAdd(@, 1)]
          /\ stack' = SetTop(t, [f EXCEPT !.pc = "loop", !.len = @ - chunk,
                                          !.off = @ + chunk])
          /\ log' = Logged(t, XorEvent(f.fn, out, in, chunk))
    /\ UNCHANGED <<HAVE_NEON, input, phase, sel>>

\* ScalarReturn with the key zeroed before the return
ScalarReturnWipesKey(t) ==
    /\ Running(t, "chacha20_xor", "loop")
    /\ ~MoreBytes(Top(t).len)
    /\ stack' = Pop(t)
    /\ arr' = [arr EXCEPT ![Slot(t)] = Blank]
    /\ mem' = [mem EXCEPT ![Top(t).key] = Zeros(32)]
    /\ UNCHANGED <<HAVE_NEON, input, log, phase, sel>>

ScalarReturn(t) ==
    /\ Running(t, "chacha20_xor", "loop")
    /\ ~MoreBytes(Top(t).len)
    /\ stack' = Pop(t)
    /\ arr' = [arr EXCEPT ![Slot(t)] = Blank]
    /\ UNCHANGED <<HAVE_NEON, input, mem, log, phase, sel>>

-----------------------------------------------------------------------------
(* chacha20_xor_interleaved4 of chacha20_simd.c.                           *)

\* I4Head with the loop condition len > 256
I4HeadGreater(t) ==
    /\ Running(t, "chacha20_xor_interleaved4", "loop")
    /\ stack' = SetTop(t, [Top(t) EXCEPT !.pc = IF Top(t).len > 256 THEN "gen" ELSE "tail",
                                          !.k = 0])
    /\ UNCHANGED <<HAVE_NEON, input, mem, arr, log, phase, sel>>

\* while (len >= 256)
I4Head(t) ==
    /\ Running(t, "chacha20_xor_interleaved4", "loop")
    /\ stack' = SetTop(t, [Top(t) EXCEPT !.pc = IF Top(t).len >= 256 THEN "gen" ELSE "tail",
                                          !.k = 0])
    /\ UNCHANGED <<HAVE_NEON, input, mem, arr, log, phase, sel>>

\* One iteration of for (k...) { chacha20_init_state(st, key, nonce, counter + k);
\* chacha20_block(block[k], st); }
I4Gen(t) ==
    /\ Running(t, "chacha20_xor_interleaved4", "gen")
    /\ LET f == Top(t)
           st == chacha20_init_state(mem[f.key], mem[f.nonce], CounterAdd(f.counter, f.k))
       IN /\ arr' = [arr EXCEPT ![Slot(t)].st = st,
                                ![Slot(t)].blocks[f.k + 1] = chacha20_block(st)]
          /\ stack' = SetTop(t, IF f.k + 1 < 4 THEN [f EXCEPT !.k = @ + 1]
                                ELSE [f EXCEPT !.k = 0, !.pc = "xor"])
          /\ log' = Logged(t, BlockEvent(f.fn, st))
    /\ UNCHANGED <<HAVE_NEON, input, mem, phase, sel>>

\* I4Xor with counter += 1 after the super-block
I4XorCounterPlusOne(t) ==
    /\ Running(t, "chacha20_xor_interleaved4", "xor")
    /\ LET f == Top(t)
           out == PtrAdd(f.out, f.off + (f.k * 64))
           in == PtrAdd(f.in, f.off + (f.k * 64))
       IN /\ mem' = XorStore(mem, out, in, arr[Slot(t)].blocks[f.k + 1], 64)
          /\ stack' = SetTop(t, IF f.k + 1 < 4 THEN [f EXCEPT !.k = @ + 1]
                                ELSE [f EXCEPT !.k = 0, !.pc = "loop", !.off = @ + 256,
                                               !.len = @ - 256,
                                               !.counter = CounterAdd(@, 1)])
          /\ log' = Logged(t, XorEvent(f.fn, out, in, 64))
    /\ UNCHANGED <<HAVE_NEON, input, arr, phase, sel>>

\* I4Xor with block k XORed against segment 3 - k
I4XorReversed(t) ==
    /\ Running(t, "chacha20_xor_interleaved4", "xor")
    /\ LET f == Top(t)
           out == PtrAdd(f.out, f.off + ((3 - f.k) * 64))
           in == PtrAdd(f.in, f.off + ((3 - f.k) * 64))
       IN /\ mem' = XorStore(mem, out, in, arr[Slot(t)].blocks[f.k + 1], 64)
          /\ stack' = SetTop(t, IF f.k + 1 < 4 THEN [f EXCEPT !.k = @ + 1]
                                ELSE [f EXCEPT !.k = 0, !.pc = "loop", !.off = @ + 256,
                                               !.len = @ - 256,
                                               !.counter = CounterAdd(@, 4)])
          /\ log' = Logged(t, XorEvent(f.fn, out, in, 64))
    /\ UNCHANGED <<HAVE_NEON, input, arr, phase, sel>>

\* One iteration of the XOR loop over k; after the last one off += 256,
\* len -= 256, counter += 4
I4Xor(t) ==
    /\ Running(t, "chacha20_xor_interleaved4", "xor")
    /\ LET f == Top(t)
           out == PtrAdd(f.out, f.off + (f.k * 64))
           in == PtrAdd(f.in, f.off + (f.k * 64))
       IN /\ mem' = XorStore(mem, out, in, arr[Slot(t)].blocks[f.k + 1], 64)
          /\ stack' = SetTop(t, IF f.k + 1 < 4 THEN [f EXCEPT !.k = @ + 1]
                                ELSE [f EXCEPT !.k = 0, !.pc = "loop", !.off = @ + 256,
                                               !.len = @ - 256,
                                               !.counter = CounterAdd(@, 4)])
          /\ log' = Logged(t, XorEvent(f.fn, out, in, 64))
    /\ UNCHANGED <<HAVE_NEON, input, arr, phase, sel>>

\* while (len > 0): chacha20_init_state(st, ...); chacha20_block(buf, st)
I4TailBlock(t) ==
    /\ Running(t, "chacha20_xor_interleaved4", "tail")
    /\ MoreBytes(Top(t).len)
    /\ LET f == Top(t)
           st == chacha20_init_state(mem[f.key], mem[f.nonce], f.counter)
       IN /\ arr' = [arr EXCEPT ![Slot(t)].st = st, ![Slot(t)].buf = chacha20_block(st)]
          /\ stack' = SetTop(t, [f EXCEPT !.pc = "tailxor"])
          /\ log' = Logged(t, BlockEvent(f.fn, st))
    /\ UNCHANGED <<HAVE_NEON, input, mem, phase, sel>>

\* I4TailXor without counter++
I4TailXorNoIncrement(t) ==
    /\ Running(t, "chacha20_xor_interleaved4", "tailxor")
    /\ LET f == Top(t)
           c == Min(f.len, 64)
           out == PtrAdd(f.out, f.off)
           in == PtrAdd(f.in, f.off)
       IN /\ mem' = XorStore(mem, out, in, arr[Slot(t)].buf, c)
          /\ stack' = SetTop(t, [f EXCEPT !.pc = "tail", !.off = @ + c, !.len = @ - c])
          /\ log' = Logged(t, XorEvent(f.fn, out, in, c))
    /\ UNCHANGED <<HAVE_NEON, input, arr, phase, sel>>

\* I4TailXor with the XOR of all 64 bytes of buf
I4TailXorWholeBlock(t) ==
    /\ Running(t, "chacha20_xor_interleaved4", "tailxor")
    /\ LET f == Top(t)
           c == 64
           out == PtrAdd(f.out, f.off)
           in == PtrAdd(f.in, f.off)
       IN /\ mem' = XorStore(mem, out, in, arr[Slot(t)].buf, c)
          /\ stack' = SetTop(t, [f EXCEPT !.pc = "tail", !.off = @ + c, !.len = @ - c,
                                          !.counter = CounterAdd(@, 1)])
          /\ log' = Logged(t, XorEvent(f.fn, out, in, c))
    /\ UNCHANGED <<HAVE_NEON, input, arr, phase, sel>>

\* the XOR of c bytes, off += c, len -= c, counter++
I4TailXor(t) ==
    /\ Running(t, "chacha20_xor_interleaved4", "tailxor")
    /\ LET f == Top(t)
           c == Min(f.len, 64)
           out == PtrAdd(f.out, f.off)
           in == PtrAdd(f.in, f.off)
       IN /\ mem' = XorStore(mem, out, in, arr[Slot(t)].buf, c)
          /\ stack' = SetTop(t, [f EXCEPT !.pc = "tail", !.off = @ + c, !.len = @ - c,
                                          !.counter = CounterAdd(@, 1)])
          /\ log' = Logged(t, XorEvent(f.fn, out, in, c))
    /\ UNCHANGED <<HAVE_NEON, input, arr, phase, sel>>

I4Return(t) ==
    /\ Running(t, "chacha20_xor_interleaved4", "tail")
    /\ ~MoreBytes(Top(t).len)
    /\ stack' = Pop(t)
    /\ arr' = [arr EXCEPT ![Slot(t)] = Blank]
    /\ UNCHANGED <<HAVE_NEON, input, mem, log, phase, sel>>

-----------------------------------------------------------------------------
(* chacha20_xor_neon4 of chacha20_simd.c, compiled when HAVE_NEON.         *)

\* N4Head with the loop condition len > 256
N4HeadGreater(t) ==
    /\ Running(t, "chacha20_xor_neon4", "loop")
    /\ stack' = SetTop(t, [Top(t) EXCEPT !.pc = IF Top(t).len > 256 THEN "gen" ELSE "tailcall",
                                          !.k = 0])
    /\ UNCHANGED <<HAVE_NEON, input, mem, arr, log, phase, sel>>

\* while (len >= 256)
N4Head(t) ==
    /\ Running(t, "chacha20_xor_neon4", "loop")
    /\ stack' = SetTop(t, [Top(t) EXCEPT !.pc = IF Top(t).len >= 256 THEN "gen" ELSE "tailcall",
                                          !.k = 0])
    /\ UNCHANGED <<HAVE_NEON, input, mem, arr, log, phase, sel>>

\* The vectors, the rounds, the feed-forward and the gather into ks[0..3]
N4Gen(t) ==
    /\ Running(t, "chacha20_xor_neon4", "gen")
    /\ LET f == Top(t)
           in == NeonInput(mem[f.key], mem[f.nonce], f.counter)
       IN /\ arr' = [arr EXCEPT ![Slot(t)].blocks = NeonGather(NeonFeedForward(in))]
          /\ stack' = SetTop(t, [f EXCEPT !.k = 0, !.pc = "xor"])
          /\ log' = Logged(t, [op |-> "vblock", fn |-> f.fn, in |-> in])
    /\ UNCHANGED <<HAVE_NEON, input, mem, phase, sel>>

\* One iteration of the XOR loop over k; after the last one off += 256,
\* len -= 256, counter += 4
N4Xor(t) ==
    /\ Running(t, "chacha20_xor_neon4", "xor")
    /\ LET f == Top(t)
           out == PtrAdd(f.out, f.off + (f.k * 64))
           in == PtrAdd(f.in, f.off + (f.k * 64))
       IN /\ mem' = XorStore(mem, out, in, arr[Slot(t)].blocks[f.k + 1], 64)
          /\ stack' = SetTop(t, IF f.k + 1 < 4 THEN [f EXCEPT !.k = @ + 1]
                                ELSE [f EXCEPT !.k = 0, !.pc = "loop", !.off = @ + 256,
                                               !.len = @ - 256,
                                               !.counter = CounterAdd(@, 4)])
          /\ log' = Logged(t, XorEvent(f.fn, out, in, 64))
    /\ UNCHANGED <<HAVE_NEON, input, arr, phase, sel>>

\* if (len > 0) chacha20_xor_interleaved4(out + off, in + off, len, key, nonce, counter)
N4TailCall(t) ==
    /\ Running(t, "chacha20_xor_neon4", "tailcall")
    /\ Top(t).len > 0
    /\ LET f == Top(t)
           g == Frame("chacha20_xor_interleaved4", PtrAdd(f.out, f.off),
                      PtrAdd(f.in, f.off), f.len, f.counter)
       IN /\ stack' = Push(t, [f EXCEPT !.pc = "ret"], g)
          /\ log' = Logged(t, CallEvent(g))
    /\ UNCHANGED <<HAVE_NEON, input, mem, arr, phase, sel>>

N4Return(t) ==
    /\ \/ Running(t, "chacha20_xor_neon4", "tailcall") /\ Top(t).len = 0
       \/ Running(t, "chacha20_xor_neon4", "ret")
    /\ stack' = Pop(t)
    /\ arr' = [arr EXCEPT ![Slot(t)] = Blank]
    /\ UNCHANGED <<HAVE_NEON, input, mem, log, phase, sel>>

-----------------------------------------------------------------------------
(* chacha20_xor_best of chacha20_simd.c: the dispatcher.                   *)

BestPathNoNeon == "chacha20_xor_interleaved4"

\* The path the build selects
BestPath == IF HAVE_NEON = 1 THEN "chacha20_xor_neon4" ELSE "chacha20_xor_interleaved4"

BestDispatch(t) ==
    /\ Running(t, "chacha20_xor_best", "dispatch")
    /\ LET f == Top(t)
           g == Frame(BestPath, f.out, f.in, f.len, f.counter)
       IN /\ stack' = Push(t, [f EXCEPT !.pc = "ret"], g)
          /\ log' = Logged(t, CallEvent(g))
    /\ UNCHANGED <<HAVE_NEON, input, mem, arr, phase, sel>>

BestReturn(t) ==
    /\ Running(t, "chacha20_xor_best", "ret")
    /\ stack' = Pop(t)
    /\ UNCHANGED <<HAVE_NEON, input, mem, arr, log, phase, sel>>

-----------------------------------------------------------------------------
(* The caller: it owns the buffers and the counter, and calls the paths    *)
(* one after the other on the same input; then it either transforms the    *)
(* output again, or transforms a buffer in place, or transforms the input  *)
(* in two calls split at a block boundary, first one call after the other  *)
(* and then the same two calls on two threads.                             *)

Idle == \A t \in Threads : stack[t] = <<>>

\* The paths of the build
Paths == {"chacha20_xor", "chacha20_xor_interleaved4", "chacha20_xor_best"}
            \cup (IF HAVE_NEON = 1 THEN {"chacha20_xor_neon4"} ELSE {})

\* Thread 1 calls fn(out, in, len, key, nonce, counter)
Call(fn, out, in, len, counter) ==
    LET f == Frame(fn, out, in, len, counter)
    IN /\ stack' = [stack EXCEPT ![1] = <<f>>]
       /\ log' = [log EXCEPT ![1] = <<CallEvent(f)>>]

CallScalar ==
    /\ phase = "start"
    /\ Call("chacha20_xor", Ptr("S", 0), Ptr("P", 0), input.len, input.counter)
    /\ phase' = "scalar"
    /\ UNCHANGED <<HAVE_NEON, input, mem, arr, sel>>

CallInterleaved4 ==
    /\ phase = "scalar" /\ Idle
    /\ Call("chacha20_xor_interleaved4", Ptr("I", 0), Ptr("P", 0), input.len, input.counter)
    /\ phase' = "i4"
    /\ UNCHANGED <<HAVE_NEON, input, mem, arr, sel>>

CallNeon4 ==
    /\ phase = "i4" /\ Idle /\ HAVE_NEON = 1
    /\ Call("chacha20_xor_neon4", Ptr("N", 0), Ptr("P", 0), input.len, input.counter)
    /\ phase' = "neon4"
    /\ UNCHANGED <<HAVE_NEON, input, mem, arr, sel>>

\* The call of chacha_main.c
CallBest ==
    /\ phase = (IF HAVE_NEON = 1 THEN "neon4" ELSE "i4") /\ Idle
    /\ Call("chacha20_xor_best", Ptr("B", 0), Ptr("P", 0), input.len, input.counter)
    /\ phase' = "best"
    /\ UNCHANGED <<HAVE_NEON, input, mem, arr, sel>>

\* The output of the call of chacha20_xor_best transformed again
CallAgain ==
    /\ phase = "best" /\ Idle
    /\ Call("chacha20_xor_best", Ptr("R", 0), Ptr("B", 0), input.len, input.counter)
    /\ phase' = "again"
    /\ UNCHANGED <<HAVE_NEON, input, mem, arr, sel>>

\* The buffer A, a copy of the input, transformed in place
CallInPlace(fn) ==
    /\ phase = "best" /\ Idle
    /\ fn \in Paths
    /\ Call(fn, Ptr("A", 0), Ptr("A", 0), input.len, input.counter)
    /\ phase' = "inplace"
    /\ sel' = [sel EXCEPT !.path = fn]
    /\ UNCHANGED <<HAVE_NEON, input, mem, arr>>

\* The output B of the call of chacha20_xor_best, which is other data than
\* P, transformed by the path fn into D with the same key, nonce, counter
\* and length
CallOnOutput(fn) ==
    /\ phase = "best" /\ Idle
    /\ fn \in Paths \ {"chacha20_xor_best"}
    /\ Call(fn, Ptr("D", 0), Ptr("B", 0), input.len, input.counter)
    /\ phase' = "other"
    /\ sel' = [sel EXCEPT !.path = fn]
    /\ UNCHANGED <<HAVE_NEON, input, mem, arr>>

\* The first 64 * m bytes of the input transformed into Q
CallSplitFirst(m) ==
    /\ phase = "best" /\ Idle
    /\ 64 * m <= input.len
    /\ Call("chacha20_xor_best", Ptr("Q", 0), Ptr("P", 0), 64 * m, input.counter)
    /\ phase' = "split1"
    /\ sel' = [sel EXCEPT !.m = m]
    /\ UNCHANGED <<HAVE_NEON, input, mem, arr>>

\* The rest of the input transformed into the rest of Q, the caller having
\* advanced the counter by m
CallSplitSecond ==
    /\ phase = "split1" /\ Idle
    /\ Call("chacha20_xor_best", Ptr("Q", 64 * sel.m), Ptr("P", 64 * sel.m),
            input.len - (64 * sel.m), ADD32(input.counter, ToU32(sel.m)))
    /\ phase' = "split2"
    /\ UNCHANGED <<HAVE_NEON, input, mem, arr, sel>>

\* The same two calls, into C, on two threads at once (tried with counter 1,
\* and not on the longest input)
CallConcurrent ==
    /\ phase = "split2" /\ Idle
    /\ input.len < MaxLen /\ input.counter = U32(0, 1)
    /\ LET f == Frame("chacha20_xor_best", Ptr("C", 0), Ptr("P", 0), 64 * sel.m, input.counter)
           g == Frame("chacha20_xor_best", Ptr("C", 64 * sel.m), Ptr("P", 64 * sel.m),
                      input.len - (64 * sel.m), ADD32(input.counter, ToU32(sel.m)))
       IN /\ stack' = [stack EXCEPT ![1] = <<f>>, ![2] = <<g>>]
          /\ log' = [log EXCEPT ![1] = <<CallEvent(f)>>, ![2] = <<CallEvent(g)>>]
    /\ phase' = "conc"
    /\ UNCHANGED <<HAVE_NEON, input, mem, arr, sel>>

-----------------------------------------------------------------------------

\* The buffers before the first call: the key, the nonce, the input P, its
\* copy A and the output buffers
InitialMem(i) ==
    [key |-> i.key, nonce |-> i.nonce,
     P |-> Pattern(i.pat, i.len + Slack), A |-> Pattern(i.pat, i.len + Slack),
     S |-> Fill(i.len + Slack), I |-> Fill(i.len + Slack), N |-> Fill(i.len + Slack),
     B |-> Fill(i.len + Slack), R |-> Fill(i.len + Slack), Q |-> Fill(i.len + Slack),
     C |-> Fill(i.len + Slack), D |-> Fill(i.len + Slack)]

Init ==
    /\ HAVE_NEON \in {0, 1}
    /\ input \in Inputs
    /\ mem = InitialMem(input)
    /\ stack = [t \in Threads |-> <<>>]
    /\ arr = [s \in Slots |-> Blank]
    /\ log = [t \in Threads |-> <<>>]
    /\ phase = "start"
    /\ sel = [path |-> "", m |-> 0]

Next ==
    \/ \E t \in Threads : ScalarInit(t)
    \/ \E t \in Threads : ScalarBlock(t)
    \/ \E t \in Threads : ScalarXor(t)
    \/ \E t \in Threads : ScalarReturn(t)
    \/ \E t \in Threads : I4Head(t)
    \/ \E t \in Threads : I4Gen(t)
    \/ \E t \in Threads : I4Xor(t)
    \/ \E t \in Threads : I4TailBlock(t)
    \/ \E t \in Threads : I4TailXor(t)
    \/ \E t \in Threads : I4Return(t)
    \/ \E t \in Threads : N4Head(t)
    \/ \E t \in Threads : N4Gen(t)
    \/ \E t \in Threads : N4Xor(t)
    \/ \E t \in Threads : N4TailCall(t)
    \/ \E t \in Threads : N4Return(t)
    \/ \E t \in Threads : BestDispatch(t)
    \/ \E t \in Threads : BestReturn(t)
    \/ CallScalar
    \/ CallInterleaved4
    \/ CallNeon4
    \/ CallBest
    \/ CallAgain
    \/ \E fn \in Paths : CallInPlace(fn)
    \/ \E fn \in Paths : CallOnOutput(fn)
    \/ \E m \in 0..MaxSplit : CallSplitFirst(m)
    \/ CallSplitSecond
    \/ CallConcurrent

Spec == Init /\ [][Next]_vars

\* A step of the call thread t is in
Step(t) ==
    \/ ScalarInit(t) \/ ScalarBlock(t) \/ ScalarXor(t) \/ ScalarReturn(t)
    \/ I4Head(t) \/ I4Gen(t) \/ I4Xor(t) \/ I4TailBlock(t) \/ I4TailXor(t) \/ I4Return(t)
    \/ N4Head(t) \/ N4Gen(t) \/ N4Xor(t) \/ N4TailCall(t) \/ N4Return(t)
    \/ BestDispatch(t) \/ BestReturn(t)

\* The four paths called one after the other, without what the caller does
\* with the output afterwards
FairNext ==
    \/ \E t \in Threads : Step(t)
    \/ CallScalar
    \/ CallInterleaved4
    \/ CallNeon4
    \/ CallBest

\* Thread t is scheduled again and again while it is in a call: the code has
\* no blocking operation, so a thread in a call takes its next step. This is
\* WF_vars(Step(t)) written out, []<>~ENABLED <<Step(t)>>_vars \/
\* []<><<Step(t)>>_vars, with Depth(t) > 0 for ENABLED <<Step(t)>>_vars
\* (AtStatement below is what makes the two the same).
Scheduled(t) == []<>(Depth(t) = 0) \/ []<><<Step(t)>>_vars

\* The calls of the four paths under that scheduling
FairSpec == Init /\ [][FairNext]_vars /\ \A t \in Threads : Scheduled(t)

-----------------------------------------------------------------------------
(* chacha20_init_state and chacha20_block statement by statement, called   *)
(* on sample inputs by a caller that builds the state of a sample, calls   *)
(* chacha20_block on it into the zeroed buffer O2, flips one bit of the    *)
(* key, the nonce or the counter (or none), builds the state again, calls  *)
(* chacha20_block on it into the buffer O1, which holds other bytes, and   *)
(* then applies one NEON_QR to four lanes made of the states and of the    *)
(* outputs. The build is the one with NEON, which has all the functions.   *)

\* Bound: the number of sample inputs
NumSamples == 2

\* Sample 1 is the input of RFC 8439 2.4.2; the others are byte patterns
Sample(i) ==
    IF i = 1 THEN [key |-> KeyRFC, nonce |-> NonceRFC, counter |-> U32(0, 1)]
    ELSE [key |-> SubSeq([j \in 1..32 |-> (255 - ((i * j * 37) % 256))], 1, 32),
          nonce |-> SubSeq([j \in 1..12 |-> (i * j * 101) % 256], 1, 12),
          counter |-> U32(65535, 65536 - i)]

Samples == {Sample(i) : i \in 1..NumSamples}

\* The bits of an input: 0..255 of the key, 256..351 of the nonce, 352..383
\* of the counter; -1 stands for no flip
FlipBits == 0..383
NoFlip == 0 - 1

\* The input s with bit b flipped
Flipped(s, b) ==
    IF b = NoFlip THEN s
    ELSE IF b < 256 THEN [s EXCEPT !.key[(b \div 8) + 1] = XOR8(@, 2 ^ (b % 8))]
    ELSE IF b < 352 THEN [s EXCEPT !.nonce[((b - 256) \div 8) + 1] = XOR8(@, 2 ^ (b % 8))]
    ELSE IF b < 368 THEN [s EXCEPT !.counter = XOR32(@, U32(0, 2 ^ (b - 352)))]
    ELSE [s EXCEPT !.counter = XOR32(@, U32(2 ^ (b - 368), 0))]

\* The loop condition i < 10 of the rounds loop
MoreRounds(i) == i < 10

\* QRSchedule with the diagonal rounds before the column rounds
QRScheduleDiagonalsFirst ==
    << <<0, 5, 10, 15>>, <<1, 6, 11, 12>>, <<2, 7, 8, 13>>, <<3, 4, 9, 14>>,
       <<0, 4, 8, 12>>, <<1, 5, 9, 13>>, <<2, 6, 10, 14>>, <<3, 7, 11, 15>> >>

\* The eight QUARTERROUND statements of the body of the rounds loop
QRSchedule ==
    << <<0, 4, 8, 12>>, <<1, 5, 9, 13>>, <<2, 6, 10, 14>>, <<3, 7, 11, 15>>,
       <<0, 5, 10, 15>>, <<1, 6, 11, 12>>, <<2, 7, 8, 13>>, <<3, 4, 9, 14>> >>

\* x + in with the word of the working state alone
FeedForwardNoAdd(x, in, w) == x[w + 1]

\* x<w> + in[w] of the store statements
FeedForward(x, in, w) == ADD32(x[w + 1], in[w + 1])

\* StoredWords without the last word
StoredWordsButLast == 0..14

\* The words w for which there is a statement store32_le(out + 4 * w, ...)
StoredWords == 0..15

\* A store that ORs the byte into the buffer
StoreByteOr(old, new) == OR8(old, new)

\* What a store leaves in a byte of out that held old
StoreByte(old, new) == new

\* The frame of a call chacha20_block(out, in) at its entry; in is the
\* array st of the caller
BlockFrame(out) ==
    [fn |-> "chacha20_block", pc |-> "copy", out |-> out, in |-> "st", i |-> 0, k |-> 0]

\* The caller builds the state of the sample with chacha20_init_state and,
\* as chacha20_xor does, inline
BuildBase ==
    /\ phase = "start"
    /\ arr' = [arr EXCEPT !.st = chacha20_init_state(input.key, input.nonce, input.counter),
                          !.inl = ScalarState(input.key, input.nonce, input.counter)]
    /\ phase' = "built"
    /\ UNCHANGED <<HAVE_NEON, input, mem, stack, log, sel>>

\* The caller calls chacha20_block(O2, st)
CallBlockFirst ==
    /\ phase = "built"
    /\ stack' = [stack EXCEPT ![1] = <<BlockFrame("O2")>>]
    /\ log' = [log EXCEPT ![1] = <<>>]
    /\ sel' = [sel EXCEPT !.written = {}]
    /\ phase' = "first"
    /\ UNCHANGED <<HAVE_NEON, input, mem, arr>>

\* The caller flips bit b of the input, or none, and builds the state again
BuildFlipped(b) ==
    /\ phase = "first" /\ Idle
    /\ LET s == Flipped(input, b)
       IN arr' = [arr EXCEPT !.st = chacha20_init_state(s.key, s.nonce, s.counter),
                             !.inl = ScalarState(s.key, s.nonce, s.counter)]
    /\ sel' = [sel EXCEPT !.flip = b]
    /\ phase' = "flipped"
    /\ UNCHANGED <<HAVE_NEON, input, mem, stack, log>>

\* The caller calls chacha20_block(O1, st)
CallBlockSecond ==
    /\ phase = "flipped"
    /\ stack' = [stack EXCEPT ![1] = <<BlockFrame("O1")>>]
    /\ log' = [log EXCEPT ![1] = <<>>]
    /\ sel' = [sel EXCEPT !.written = {}]
    /\ phase' = "second"
    /\ UNCHANGED <<HAVE_NEON, input, mem, arr>>

\* uint32_t x0 = in[0], ..., x15 = in[15]
BlockCopy ==
    /\ Running(1, "chacha20_block", "copy")
    /\ arr' = [arr EXCEPT !.x = arr[Top(1).in]]
    /\ stack' = SetTop(1, [Top(1) EXCEPT !.pc = "loop", !.i = 0])
    /\ UNCHANGED <<HAVE_NEON, input, mem, log, phase, sel>>

\* for (int i = 0; i < 10; i++): the test
BlockLoop ==
    /\ Running(1, "chacha20_block", "loop")
    /\ stack' = SetTop(1, [Top(1) EXCEPT !.pc = IF MoreRounds(Top(1).i) THEN "qr" ELSE "store",
                                        !.k = 0])
    /\ UNCHANGED <<HAVE_NEON, input, mem, arr, log, phase, sel>>

\* Statement k of the body: QUARTERROUND on the working words; after the
\* last one, i++
BlockQR ==
    /\ Running(1, "chacha20_block", "qr")
    /\ LET f == Top(1)
           q == QRSchedule[f.k + 1]
       IN /\ arr' = [arr EXCEPT !.x = QUARTERROUND(@, q[1], q[2], q[3], q[4])]
          /\ log' = Logged(1, q)
          /\ stack' = SetTop(1, IF f.k + 1 < Len(QRSchedule) THEN [f EXCEPT !.k = @ + 1]
                                ELSE [f EXCEPT !.pc = "loop", !.i = @ + 1])
    /\ UNCHANGED <<HAVE_NEON, input, mem, phase, sel>>

\* store32_le(out + 0, x0 + in[0]); ...; store32_le(out + 60, x15 + in[15])
BlockStore ==
    /\ Running(1, "chacha20_block", "store")
    /\ LET f == Top(1)
       IN /\ mem' = [mem EXCEPT ![f.out] =
                        SubSeq([j \in 1..64 |->
                                  IF ((j - 1) \div 4) \in StoredWords
                                  THEN StoreByte(@[j],
                                         store32_le(FeedForward(arr.x, arr[f.in], (j - 1) \div 4))
                                                   [((j - 1) % 4) + 1])
                                  ELSE @[j]], 1, 64)]
          /\ sel' = [sel EXCEPT !.written = {j \in 0..63 : (j \div 4) \in StoredWords}]
          /\ stack' = SetTop(1, [f EXCEPT !.pc = "ret"])
    /\ UNCHANGED <<HAVE_NEON, input, arr, log, phase>>

\* The return of chacha20_block: the working words are gone
BlockReturn ==
    /\ Running(1, "chacha20_block", "ret")
    /\ stack' = Pop(1)
    /\ arr' = [arr EXCEPT !.x = <<>>]
    /\ UNCHANGED <<HAVE_NEON, input, mem, log, phase, sel>>

\* The 16 words a buffer of 64 bytes holds
WordsOf(buf) == SubSeq([w \in 1..16 |-> load32_le(buf, 4 * (w - 1))], 1, 16)

\* Four lanes of 16 words as 16 vectors
Lanes(l0, l1, l2, l3) == SubSeq([w \in 1..16 |-> <<l0[w], l1[w], l2[w], l3[w]>>], 1, 16)

\* Lane l (from 1) of 16 vectors as 16 words
LaneOf(v, l) == SubSeq([w \in 1..16 |-> vgetq_lane_u32(v[w], l - 1)], 1, 16)

\* One NEON_QR of the rounds loop of chacha20_xor_neon4, statement k of the
\* body, on the lanes: the state, the inline state with word 12 plus 1, the
\* words of O1 and the words of O2
NeonQRStep(k) ==
    /\ phase = "second" /\ Idle /\ HAVE_NEON = 1
    /\ LET q == QRSchedule[k]
           v == Lanes(arr.st, [arr.inl EXCEPT ![13] = CounterAdd(@, 1)],
                      WordsOf(mem.O1), WordsOf(mem.O2))
       IN /\ arr' = [arr EXCEPT !.vin = v, !.v = NEON_QR(v, q[1], q[2], q[3], q[4])]
          /\ sel' = [sel EXCEPT !.q = q]
    /\ phase' = "neon"
    /\ UNCHANGED <<HAVE_NEON, input, mem, stack, log>>

BlockInit ==
    /\ HAVE_NEON = 1
    /\ input \in Samples
    /\ mem = [O1 |-> Fill(64), O2 |-> Zeros(64)]
    /\ arr = [st |-> <<>>, inl |-> <<>>, x |-> <<>>, vin |-> <<>>, v |-> <<>>]
    /\ stack = [t \in Threads |-> <<>>]
    /\ log = [t \in Threads |-> <<>>]
    /\ phase = "start"
    /\ sel = [flip |-> NoFlip, written |-> {}, q |-> <<>>]

BlockNext ==
    \/ BuildBase
    \/ CallBlockFirst
    \/ \E b \in FlipBits \cup {NoFlip} : BuildFlipped(b)
    \/ CallBlockSecond
    \/ BlockCopy
    \/ BlockLoop
    \/ BlockQR
    \/ BlockStore
    \/ BlockReturn
    \/ \E k \in 1..Len(QRSchedule) : NeonQRStep(k)

BlockSpec == BlockInit /\ [][BlockNext]_vars

-----------------------------------------------------------------------------
(* Properties.                                                             *)

\* The first input.len bytes of buffer b
Out(b) == SubSeq(mem[b], 1, input.len)

\* The call the caller started in phase ph has returned, and no other call
\* has been started since
Returned(ph) == phase = ph /\ Idle

\* The output buffer of the call of phase ph, and of a call of the path fn
OutBufOf(ph) == CASE ph = "scalar" -> "S" [] ph = "i4" -> "I" [] ph = "neon4" -> "N"
                  [] ph = "best" -> "B"
OutBufOfPath(fn) == CASE fn = "chacha20_xor" -> "S" [] fn = "chacha20_xor_interleaved4" -> "I"
                      [] fn = "chacha20_xor_neon4" -> "N" [] fn = "chacha20_xor_best" -> "B"

\* KS(c): chacha20_block on the state chacha20_init_state builds for the
\* caller's key and nonce and the counter c
KS(c) == chacha20_block(chacha20_init_state(input.key, input.nonce, c))

\* The events of a log that generate keystream
IsGen(e) == e.op \in {"block", "vblock"}
IsWork(e) == e.op \in {"block", "vblock", "xor"}

\* The counter of the second keystream block a call generated
SecondBlockCounter(l) ==
    LET g == SelectSeq(l, IsGen)
    IN IF g[1].op = "vblock" THEN g[1].in[13][2] ELSE g[2].st[13]

\* C1: after chacha20_xor_best returns, every output byte i in 0..len-1 is
\* in[i] XOR KS((counter + floor(i / 64)) mod 2^32)[i mod 64].
C1_BestXorsKeystream ==
    Returned("best") =>
        \A j \in 0..((input.len + 63) \div 64) - 1 :
            LET ks == KS(ADD32(input.counter, ToU32(j)))
            IN \A i \in (64 * j)..(Min(input.len, 64 * (j + 1)) - 1) :
                   mem.B[i + 1] = XOR8(mem.P[i + 1], ks[(i % 64) + 1])

\* chacha20_xor_best has returned from 257 bytes with counter 0xFFFFFFFF on a
\* build with NEON, and the last byte is the input byte XOR byte 0 of KS(3).
C1_Witness ==
    /\ Returned("best") /\ HAVE_NEON = 1
    /\ input.len = 257 /\ input.counter = U32(65535, 65535)
    /\ mem.B[257] = XOR8(mem.P[257], KS(U32(0, 3))[1])
    /\ mem.B[257] # 170

\* The lengths cross-path equivalence is stated for
BoundaryLens == {0, 1, 63, 64, 65, 255, 256, 257, 1024}

\* C2: for the same key, nonce, counter and plaintext, chacha20_xor,
\* chacha20_xor_interleaved4 and chacha20_xor_neon4 produce byte-identical
\* output, for each of the lengths 0, 1, 63, 64, 65, 255, 256, 257 and 1024.
C2_PathsAgree ==
    /\ (Returned("i4") /\ input.len \in BoundaryLens) => mem.S = mem.I
    /\ (Returned("neon4") /\ input.len \in BoundaryLens) => (mem.S = mem.I /\ mem.I = mem.N)

\* The three paths have returned from 1024 bytes with the same output, which
\* is not what the buffers held before.
C2_Witness ==
    /\ Returned("neon4") /\ input.len = 1024
    /\ mem.S = mem.I /\ mem.I = mem.N
    /\ Out("N") # Fill(1024)

\* C3: chacha20_xor_best applied to the output of chacha20_xor_best, with the
\* same key, nonce and counter, gives the plaintext again.
C3_SelfInverse ==
    Returned("again") => Out("R") = Out("P")

\* The second call has returned from 257 bytes, with the plaintext as output
\* and a different ciphertext as input.
C3_Witness ==
    /\ Returned("again") /\ input.len = 257
    /\ Out("R") = Out("P") /\ Out("B") # Out("P")

\* C4: the 4 keystream blocks ks[0..3] of one iteration of the 256-byte loop
\* of chacha20_xor_neon4 are the outputs of chacha20_block on the states
\* initialized with counter, counter + 1, counter + 2, counter + 3.
C4_NeonBlocksAreBlockCore ==
    (phase = "neon4" /\ Running(1, "chacha20_xor_neon4", "xor") /\ Top(1).k = 0) =>
        \A k \in 0..3 :
            arr[Slot(1)].blocks[k + 1]
                = chacha20_block(chacha20_init_state(mem.key, mem.nonce,
                                                     ADD32(Top(1).counter, ToU32(k))))

\* chacha20_xor_neon4 has gathered the 4 blocks of a super-block that starts
\* at counter 0xFFFFFFFE, and ks[2] is the block of counter 0.
C4_Witness ==
    /\ phase = "neon4" /\ Running(1, "chacha20_xor_neon4", "xor") /\ Top(1).k = 0
    /\ Top(1).counter = U32(65535, 65534)
    /\ arr[Slot(1)].blocks[3] = KS(U32(0, 0))

\* The input of RFC 8439 section 2.4.2
IsRfcInput ==
    /\ input.key = KeyRFC /\ input.nonce = NonceRFC /\ input.counter = U32(0, 1)
    /\ input.pat = 0 /\ input.len = 114

\* C5: on the key, nonce, counter and 114-byte plaintext of RFC 8439 section
\* 2.4.2 every path produces the published ciphertext.
C5_RfcVector ==
    IsRfcInput =>
        \A ph \in {"scalar", "i4", "neon4", "best"} :
            Returned(ph) => Out(OutBufOf(ph)) = RfcCiphertext

\* chacha20_xor_best has returned the published ciphertext on a build with
\* NEON.
C5_Witness ==
    /\ IsRfcInput /\ HAVE_NEON = 1 /\ Returned("best")
    /\ Out("B") = RfcCiphertext /\ Out("P") = RfcPlaintext

\* C6: a call that starts with counter 0xFFFFFFFF and processes more than 64
\* bytes generates its second block with counter 0, and bytes 64..127 of the
\* output are the input XOR chacha20_block on the state of counter 0; in the
\* scalar, the interleaved-4 and the NEON path.
C6_CounterWraps ==
    (input.counter = U32(65535, 65535) /\ input.len > 64) =>
        \A ph \in {"scalar", "i4", "neon4"} :
            Returned(ph) =>
                /\ SecondBlockCounter(log[1]) = U32(0, 0)
                /\ LET ks == chacha20_block(chacha20_init_state(mem.key, mem.nonce, U32(0, 0)))
                   IN \A i \in 65..Min(input.len, 128) :
                          mem[OutBufOf(ph)][i] = XOR8(mem.P[i], ks[i - 64])

\* chacha20_xor_neon4 has returned from 256 bytes that started at counter
\* 0xFFFFFFFF, and the counter of lane 1 was 0.
C6_Witness ==
    /\ input.counter = U32(65535, 65535) /\ input.len = 256 /\ Returned("neon4")
    /\ SecondBlockCounter(log[1]) = U32(0, 0)
    /\ mem.N[65] = XOR8(mem.P[65], KS(U32(0, 0))[1])

\* C7: a call with length 0 generates no keystream block and stores no byte,
\* in every path: the memory is what it was before the call.
C7_ZeroLengthNoOp ==
    /\ \A t \in Threads :
           (log[t] # <<>> /\ log[t][1].len = 0) =>
               \A n \in 1..Len(log[t]) : ~IsWork(log[t][n])
    /\ (input.len = 0 /\ phase \in {"scalar", "i4", "neon4", "best"}) =>
           mem = InitialMem(input)
    /\ (phase = "split1" /\ sel.m = 0) => mem.Q = Fill(input.len + Slack)

\* chacha20_xor_best has returned from a call with length 0 and non-empty
\* buffers, on a build with NEON, and the output buffer is as before.
C7_Witness ==
    /\ Returned("split1") /\ sel.m = 0 /\ input.len = 257 /\ HAVE_NEON = 1
    /\ log[1][1].len = 0 /\ Len(log[1]) = 2
    /\ mem.Q = Fill(input.len + Slack)

\* C8: when the output buffer is the input buffer, the buffer holds after the
\* call what the call writes to a separate output buffer; for every length
\* and every path.
C8_InPlace ==
    Returned("inplace") => Out("A") = Out(OutBufOfPath(sel.path))

\* chacha20_xor_neon4 has returned from 257 bytes transformed in place.
C8_Witness ==
    /\ Returned("inplace") /\ sel.path = "chacha20_xor_neon4" /\ input.len = 257
    /\ Out("A") = Out("N") /\ mem.A # mem.P

\* C9: transforming P[0 .. 64m) with counter c and P[64m .. len) with counter
\* (c + m) mod 2^32 in two calls gives the bytes of one call on P with
\* counter c.
C9_Seekable ==
    Returned("split2") => mem.Q = mem.B

\* The two calls have returned from 256 and 1 bytes, the second with a
\* counter that wrapped.
C9_Witness ==
    /\ Returned("split2") /\ sel.m = 4 /\ input.len = 257
    /\ input.counter = U32(65535, 65534)
    /\ mem.Q = mem.B /\ Out("Q") # Fill(257)

\* C10: two calls that run at once on two threads, with the same key and
\* nonce and disjoint output regions, produce under every interleaving of
\* their steps the output each produces alone; the key, the nonce and the
\* input are not changed.
C10_ConcurrentCalls ==
    /\ Returned("conc") => mem.C = mem.Q
    /\ phase = "conc" => (mem.key = input.key /\ mem.nonce = input.nonce /\ mem.P = mem.A)

\* Both threads have returned, from 64 and 193 bytes, on a build with NEON.
C10_Witness ==
    /\ Returned("conc") /\ sel.m = 1 /\ input.len = 257 /\ HAVE_NEON = 1
    /\ mem.C = mem.Q /\ Out("C") # Fill(257)

\* The frames of thread t that stay on the stack over a step cannot gain
\* length, and a frame that finishes a loop iteration has lost some
LenDecreases(t) ==
    \A d \in 1..Min(Len(stack[t]), Len(stack'[t])) :
        LET f == stack[t][d]
            g == stack'[t][d]
        IN /\ g.len <= f.len
           /\ (f.pc \in {"xor", "tailxor"} /\ g.pc \in {"loop", "tail"}) => g.len < f.len

\* The running frame of thread t is at a statement of its function, every
\* one of which has a next step: a loop test, a block generation, an XOR
\* loop, a call or the return
AtStatement(t) ==
    LET f == Top(t)
    IN \/ f.fn = "chacha20_xor" /\ f.pc \in {"init", "loop", "xor"}
       \/ f.fn = "chacha20_xor_interleaved4" /\ f.pc \in {"loop", "gen", "xor", "tail", "tailxor"}
       \/ f.fn = "chacha20_xor_neon4" /\ f.pc \in {"loop", "gen", "xor", "tailcall", "ret"}
       \/ f.fn = "chacha20_xor_best" /\ f.pc \in {"dispatch", "ret"}

\* C11: every call of every path returns, for every input: each loop
\* iteration strictly decreases the remaining length, a thread in a call is
\* always at a statement that has a next step (there is no abort and no
\* error outcome), and a thread that is in a call is eventually out of it.
C11_Total ==
    /\ [][\A t \in Threads : LenDecreases(t)]_vars
    /\ [](\A t \in Threads : Depth(t) > 0 => AtStatement(t))
    /\ \A t \in Threads : (Depth(t) > 0) ~> (Depth(t) = 0)

\* chacha20_xor_neon4 has returned from 1024 bytes after 4 iterations of its
\* loop, with counter 0xFFFFFFFF.
C11_Witness ==
    /\ Returned("neon4") /\ input.len = 1024 /\ input.counter = U32(65535, 65535)
    /\ Len(SelectSeq(log[1], IsGen)) = 4

IsCall(e) == e.op = "call"

\* A step of a frame of chacha20_xor_best on thread t writes no memory and
\* no array
BestKeepsNoState(t) ==
    (Depth(t) > 0 /\ Top(t).fn = "chacha20_xor_best" /\ stack'[t] # stack[t])
        => (mem' = mem /\ arr' = arr)

-----------------------------------------------------------------------------
(* Properties of chacha20_block, chacha20_init_state and NEON_QR, under    *)
(* BlockSpec.                                                              *)

\* The sample with the bit the caller chose flipped
FlippedInput == Flipped(input, sel.flip)

\* chacha20_block has returned from the call on the state of the sample
FirstReturned == phase = "first" /\ Idle

\* chacha20_block has returned from the call on the state of the sample with
\* the chosen bit flipped
SecondReturned == phase = "second" /\ Idle

\* C13: chacha20_block is deterministic: the 64 bytes it writes are a
\* function of (key, nonce, counter) alone, so two calls on the state of the
\* same (key, nonce, counter) write the same 64 bytes, whatever call came
\* before and whatever the output buffer held (O2 held zeros, O1 held 0xAA,
\* and the call into O1 comes after the call into O2).
C13_BlockDeterministic ==
    /\ FirstReturned =>
           mem.O2 = chacha20_block(chacha20_init_state(input.key, input.nonce, input.counter))
    /\ SecondReturned =>
           /\ mem.O1 = chacha20_block(chacha20_init_state(FlippedInput.key, FlippedInput.nonce,
                                                          FlippedInput.counter))
           /\ sel.flip = NoFlip => mem.O1 = mem.O2

\* Both calls have returned, on the same state of the RFC sample
C13_Witness ==
    /\ SecondReturned /\ sel.flip = NoFlip /\ input = Sample(1)
    /\ mem.O1 = mem.O2 /\ mem.O1 # Fill(64)

\* C14: chacha20_block does not change its input: during the call and after
\* its return the 16 words of the caller's state are the words the caller
\* built; and when it has returned every one of the 64 bytes of out has been
\* written.
C14_InputKeptAllWritten ==
    /\ phase = "first" =>
           arr.st = chacha20_init_state(input.key, input.nonce, input.counter)
    /\ phase = "second" =>
           arr.st = chacha20_init_state(FlippedInput.key, FlippedInput.nonce,
                                        FlippedInput.counter)
    /\ (FirstReturned \/ SecondReturned) => sel.written = 0..63

\* chacha20_block has returned from the call on the state of sample 2, whose
\* word 12 is still the counter 0xFFFFFFFE
C14_Witness ==
    /\ FirstReturned /\ input = Sample(2)
    /\ arr.st[13] = U32(65535, 65534) /\ sel.written = 0..63

\* The uint32_t whose bytes, least significant first, are b0, b1, b2, b3
LEWord(b0, b1, b2, b3) == U32(b2 + (256 * b3), b0 + (256 * b1))

\* The 16 words of the initial state of the input s, word by word
StateLayout(s) ==
    <<U32(24944, 30821), U32(13088, 25710), U32(31074, 11570), U32(27424, 25972),
      LEWord(s.key[1], s.key[2], s.key[3], s.key[4]),
      LEWord(s.key[5], s.key[6], s.key[7], s.key[8]),
      LEWord(s.key[9], s.key[10], s.key[11], s.key[12]),
      LEWord(s.key[13], s.key[14], s.key[15], s.key[16]),
      LEWord(s.key[17], s.key[18], s.key[19], s.key[20]),
      LEWord(s.key[21], s.key[22], s.key[23], s.key[24]),
      LEWord(s.key[25], s.key[26], s.key[27], s.key[28]),
      LEWord(s.key[29], s.key[30], s.key[31], s.key[32]),
      s.counter,
      LEWord(s.nonce[1], s.nonce[2], s.nonce[3], s.nonce[4]),
      LEWord(s.nonce[5], s.nonce[6], s.nonce[7], s.nonce[8]),
      LEWord(s.nonce[9], s.nonce[10], s.nonce[11], s.nonce[12])>>

\* C15: the initial state has the constants 0x61707865, 0x3320646e,
\* 0x79622d32, 0x6b206574 in words 0..3, the key as 8 little-endian words in
\* words 4..11, the counter in word 12 and the nonce as 3 little-endian
\* words in words 13..15; chacha20_init_state and the inline initialization
\* of chacha20_xor build the same 16 words.
C15_StateLayout ==
    /\ phase \in {"built", "first"} =>
           (arr.st = StateLayout(input) /\ arr.inl = StateLayout(input))
    /\ phase \in {"flipped", "second", "neon"} =>
           (arr.st = StateLayout(FlippedInput) /\ arr.inl = StateLayout(FlippedInput))

\* Both states are built from the RFC sample with the top bit of the last
\* key byte flipped: word 11 is 0x9f1e1d1c
C15_Witness ==
    /\ phase = "flipped" /\ input = Sample(1) /\ sel.flip = 255
    /\ arr.st[12] = U32(40734, 7452) /\ arr.inl[12] = U32(40734, 7452)

\* C16: over the samples, each flip of a single bit of the key, of the nonce
\* or of the counter gives a 64-byte block that is not the block of the
\* sample.
C16_Avalanche ==
    (SecondReturned /\ sel.flip \in FlipBits) => mem.O1 # mem.O2

\* The block of sample 2 with the top bit of the counter flipped is there
\* and differs from the block of sample 2
C16_Witness ==
    /\ SecondReturned /\ input = Sample(2) /\ sel.flip = 383
    /\ FlippedInput.counter = U32(32767, 65534)
    /\ \E j \in 1..64 : mem.O1[j] # mem.O2[j]

\* The j-th quarter round (from 1) of a block: the four columns, then the
\* four diagonals, again and again
QuarterRoundNo(j) ==
    CASE (j - 1) % 8 = 0 -> <<0, 4, 8, 12>>
      [] (j - 1) % 8 = 1 -> <<1, 5, 9, 13>>
      [] (j - 1) % 8 = 2 -> <<2, 6, 10, 14>>
      [] (j - 1) % 8 = 3 -> <<3, 7, 11, 15>>
      [] (j - 1) % 8 = 4 -> <<0, 5, 10, 15>>
      [] (j - 1) % 8 = 5 -> <<1, 6, 11, 12>>
      [] (j - 1) % 8 = 6 -> <<2, 7, 8, 13>>
      [] (j - 1) % 8 = 7 -> <<3, 4, 9, 14>>

\* chacha20_block is past its rounds loop
PastRounds == Idle \/ (Depth(1) > 0 /\ Top(1).pc \in {"store", "ret"})

\* C17: chacha20_block applies exactly 10 double rounds, 80 quarter rounds:
\* in each double round the columns (0,4,8,12), (1,5,9,13), (2,6,10,14),
\* (3,7,11,15) and then the diagonals (0,5,10,15), (1,6,11,12), (2,7,8,13),
\* (3,4,9,14), in this order.
C17_TenDoubleRounds ==
    phase \in {"first", "second"} =>
        /\ \A j \in 1..Len(log[1]) : log[1][j] = QuarterRoundNo(j)
        /\ Len(log[1]) <= 80
        /\ PastRounds => Len(log[1]) = 80
        /\ Running(1, "chacha20_block", "store") =>
               (Top(1).i = 10 /\ arr.x = Rounds10(arr.st))

\* chacha20_block has left the rounds loop in the call on the RFC sample,
\* after 80 quarter rounds, the last one on (3,4,9,14)
C17_Witness ==
    /\ phase = "first" /\ input = Sample(1)
    /\ Running(1, "chacha20_block", "store")
    /\ Len(log[1]) = 80 /\ log[1][80] = <<3, 4, 9, 14>> /\ log[1][1] = <<0, 4, 8, 12>>

\* C18: NEON_QR computes in each of the 4 lanes what the scalar QUARTERROUND
\* (rotations 16, 12, 8, 7) computes on the words of that lane, and no lane
\* depends on another: lane l of the result is lane l of NEON_QR applied to
\* l's words in all four lanes.
C18_NeonQRLanes ==
    phase = "neon" =>
        \A l \in 1..4 :
            LET q == sel.q
                words == LaneOf(arr.vin, l)
            IN /\ LaneOf(arr.v, l) = QUARTERROUND(words, q[1], q[2], q[3], q[4])
               /\ LaneOf(arr.v, l) =
                      LaneOf(NEON_QR(Lanes(words, words, words, words),
                                     q[1], q[2], q[3], q[4]), l)

\* NEON_QR(x1, x6, x11, x12) has been applied to four lanes that are
\* pairwise different (the counter bit 0 of the RFC sample was flipped)
C18_Witness ==
    /\ phase = "neon" /\ input = Sample(1) /\ sel.flip = 352
    /\ sel.q = <<1, 6, 11, 12>>
    /\ \A l, m \in 1..4 : l # m => LaneOf(arr.vin, l) # LaneOf(arr.vin, m)
    /\ arr.v # arr.vin

\* chacha20_block has stored its output and not yet returned: the working
\* words x0..x15 are the mixed words
Stored == phase \in {"first", "second"} /\ Running(1, "chacha20_block", "ret")

\* C19: the feed-forward adds the original word of the input to the mixed
\* word, modulo 2^32, and word w is stored little-endian at the offsets 4w
\* to 4w + 3 of out: load32_le of these four bytes is
\* (mixed[w] + input[w]) mod 2^32.
C19_FeedForwardStored ==
    Stored =>
        \A w \in 0..15 :
            LET out == mem[Top(1).out]
                sum == ADD32(arr.x[w + 1], arr.st[w + 1])
            IN /\ load32_le(out, 4 * w) = sum
               /\ out[(4 * w) + 1] = sum[2] % 256
               /\ out[(4 * w) + 2] = sum[2] \div 256
               /\ out[(4 * w) + 3] = sum[1] % 256
               /\ out[(4 * w) + 4] = sum[1] \div 256

\* chacha20_block has stored the block of sample 2 into O2; the mixed words
\* differ from the input words, and word 12 of the input is 0xFFFFFFFE
C19_Witness ==
    /\ Stored /\ phase = "first" /\ input = Sample(2)
    /\ arr.st[13] = U32(65535, 65534)
    /\ \A w \in 1..16 : arr.x[w] # arr.st[w]
    /\ mem.O2 # Zeros(64)

-----------------------------------------------------------------------------
(* The states the paths of Spec give to the block core.                    *)

\* Word 12 of the states of the block generations es, in order, the four
\* lanes of a vector generation one after the other
RECURSIVE Word12s(_)
Word12s(es) ==
    IF es = <<>> THEN <<>>
    ELSE (IF Head(es).op = "vblock" THEN Head(es).in[13] ELSE <<Head(es).st[13]>>)
         \o Word12s(Tail(es))

\* C20: at every block generation, scalar or vector, of every path during a
\* call, words 0..3 of the state are the constants, words 4..11 the key
\* words and words 13..15 the nonce words; word 12 is the only word that
\* differs between the blocks of a call: it is the counter of the call plus
\* the number of the block, so no two blocks of a call have the same.
C20_OnlyCounterVaries ==
    \A t \in Threads :
        LET gens == SelectSeq(log[t], IsGen)
            c12 == Word12s(gens)
            layout == StateLayout(input)
        IN /\ \A j \in 1..Len(gens) : \A w \in (1..16) \ {13} :
                  IF gens[j].op = "vblock"
                  THEN gens[j].in[w] = <<layout[w], layout[w], layout[w], layout[w]>>
                  ELSE gens[j].st[w] = layout[w]
           /\ \A j \in 1..Len(c12) : c12[j] = ADD32(log[t][1].counter, ToU32(j - 1))
           /\ \A i, j \in 1..Len(c12) : i # j => c12[i] # c12[j]

\* chacha20_xor_best has returned from 257 bytes at counter 0xFFFFFFFE in a
\* build with NEON: one vector generation and one scalar generation, with
\* word 12 wrapping to 0, 1, 2
C20_Witness ==
    /\ Returned("best") /\ HAVE_NEON = 1 /\ input.len = 257
    /\ input.key = KeyRFC /\ input.nonce = NonceRFC
    /\ Word12s(SelectSeq(log[1], IsGen)) =
           <<U32(65535, 65534), U32(65535, 65535), U32(0, 0), U32(0, 1), U32(0, 2)>>

-----------------------------------------------------------------------------
(* The loops of the paths, under Spec.                                     *)

IsBlock(e) == e.op = "block"
IsXor(e) == e.op = "xor"

\* Thread t is in, or has returned from, a call of the path fn made by the
\* caller
CalledPath(t, fn) == log[t] # <<>> /\ log[t][1].fn = fn

\* C21: in chacha20_xor the state given to the block core for the j-th
\* 64-byte region (j from 0) is the state freshly initialized from (key,
\* nonce, (counter + j) mod 2^32), and the counter word is incremented by
\* exactly 1 after every region, a final region of fewer than 64 bytes
\* included: at the loop head the state is the fresh state of counter plus
\* the number of regions done.
C21_ScalarStatePerRegion ==
    \A t \in Threads :
        CalledPath(t, "chacha20_xor") =>
            LET blocks == SelectSeq(log[t], IsBlock)
                xors == SelectSeq(log[t], IsXor)
                c0 == log[t][1].counter
            IN /\ \A j \in 1..Len(blocks) :
                      blocks[j].st = chacha20_init_state(input.key, input.nonce,
                                                         ADD32(c0, ToU32(j - 1)))
               /\ Running(t, "chacha20_xor", "loop") =>
                      arr[Slot(t)].st = chacha20_init_state(input.key, input.nonce,
                                                            ADD32(c0, ToU32(Len(xors))))
               /\ Running(t, "chacha20_xor", "xor") => Len(blocks) = Len(xors) + 1

\* chacha20_xor is back at its loop head after the second region of 65
\* bytes, a region of 1 byte, at counter 0xFFFFFFFF: the counter word is 1
C21_Witness ==
    /\ phase = "scalar" /\ Running(1, "chacha20_xor", "loop")
    /\ input.len = 65 /\ input.counter = U32(65535, 65535) /\ Top(1).len = 0
    /\ SelectSeq(log[1], IsXor)[2].n = 1
    /\ arr[Slot(1)].st[13] = U32(0, 1)

IsI4Call(e) == e.op = "call" /\ e.fn = "chacha20_xor_interleaved4"
IsI4Work(e) == e.op \in {"block", "xor"} /\ e.fn = "chacha20_xor_interleaved4"

\* a[i] ^ b[i] for the n bytes of a from offset o and the first n bytes of b
XorBytes(a, o, b, n) == SubSeq([i \in 1..n |-> XOR8(a[o + i], b[i])], 1, n)

\* C22: in chacha20_xor_interleaved4, for each 256-byte super-block the 4
\* keystream blocks of the counters counter..counter+3 are all generated
\* before the first byte of the super-block is XORed; block k is XORed
\* against the input bytes off+64k .. off+64k+63, for k = 0, 1, 2, 3 in this
\* order; and after each super-block the counter has advanced by exactly 4
\* and the offset by exactly 256.
C22_SuperBlockOrder ==
    \A t \in Threads :
        LET calls == SelectSeq(log[t], IsI4Call)
        IN calls # <<>> =>
            LET c == calls[1]
                ev == SelectSeq(log[t], IsI4Work)
                done == Len(ev) \div 8
            IN /\ \A j \in 1..Min(Len(ev), 8 * (c.len \div 256)) :
                      LET s == (j - 1) \div 8
                          r == (j - 1) % 8
                      IN IF r < 4
                         THEN /\ ev[j].op = "block"
                              /\ ev[j].st = chacha20_init_state(input.key, input.nonce,
                                                ADD32(c.counter, ToU32((4 * s) + r)))
                         ELSE ev[j] = [op |-> "xor", fn |-> "chacha20_xor_interleaved4",
                                       out |-> PtrAdd(c.out, (256 * s) + (64 * (r - 4))),
                                       in |-> PtrAdd(c.in, (256 * s) + (64 * (r - 4))),
                                       n |-> 64]
               /\ Running(t, "chacha20_xor_interleaved4", "loop") =>
                      /\ Len(ev) = 8 * done
                      /\ Top(t).counter = ADD32(c.counter, ToU32(4 * done))
                      /\ Top(t).off = 256 * done
                      /\ Top(t).len = c.len - (256 * done)
                      /\ (done > 0 /\ c.out.buf # c.in.buf) =>
                             \A k \in 0..3 :
                                 LET o == (256 * (done - 1)) + (64 * k)
                                 IN SubSeq(mem[c.out.buf], c.out.off + o + 1, c.out.off + o + 64)
                                      = XorBytes(mem[c.in.buf], c.in.off + o,
                                                 KS(ADD32(c.counter, ToU32((4 * (done - 1)) + k))), 64)

\* chacha20_xor_interleaved4 is back at its loop head after the second
\* super-block of 1024 bytes: 8 blocks generated, 8 segments XORed
C22_Witness ==
    /\ phase = "i4" /\ Running(1, "chacha20_xor_interleaved4", "loop")
    /\ input.len = 1024 /\ Top(1).off = 512
    /\ Len(SelectSeq(log[1], IsBlock)) = 8 /\ Len(SelectSeq(log[1], IsXor)) = 8

\* C23: in chacha20_xor_interleaved4 the tail loop starts only after the
\* super-block loop has ended, with fewer than 256 bytes remaining, the
\* counter (counter0 + 4 * floor(len0 / 256)) mod 2^32 and the offset
\* 256 * floor(len0 / 256); it runs at most 4 iterations, each one calling
\* the block core once on a freshly initialized state, XORing
\* min(remaining, 64) bytes and advancing the counter by exactly 1.
C23_TailLoop ==
    \A t \in Threads :
        LET calls == SelectSeq(log[t], IsI4Call)
        IN calls # <<>> =>
            LET c == calls[1]
                ev == SelectSeq(log[t], IsI4Work)
                nsb == c.len \div 256
                c1 == ADD32(c.counter, ToU32(4 * nsb))
                InTail == Depth(t) > 0 /\ Top(t).fn = "chacha20_xor_interleaved4"
                            /\ Top(t).pc \in {"tail", "tailxor"}
                iters == (Len(ev) - (8 * nsb)) \div 2
            IN /\ Len(ev) <= (8 * nsb) + 8
               /\ \A j \in ((8 * nsb) + 1)..Len(ev) :
                      LET it == (j - (8 * nsb) - 1) \div 2
                          rem == (c.len % 256) - (64 * it)
                      IN IF (j - (8 * nsb)) % 2 = 1
                         THEN /\ ev[j].op = "block"
                              /\ ev[j].st = chacha20_init_state(input.key, input.nonce,
                                                                ADD32(c1, ToU32(it)))
                         ELSE ev[j] = [op |-> "xor", fn |-> "chacha20_xor_interleaved4",
                                       out |-> PtrAdd(c.out, (256 * nsb) + (64 * it)),
                                       in |-> PtrAdd(c.in, (256 * nsb) + (64 * it)),
                                       n |-> Min(rem, 64)]
               /\ InTail =>
                      /\ Len(ev) >= 8 * nsb
                      /\ Top(t).len < 256
                      /\ iters <= 4
               /\ (InTail /\ Top(t).pc = "tail") =>
                      /\ Len(ev) = (8 * nsb) + (2 * iters)
                      /\ Top(t).counter = ADD32(c1, ToU32(iters))
                      /\ Top(t).off = c.len - Top(t).len
                      /\ Top(t).off = Min(c.len, (256 * nsb) + (64 * iters))

\* chacha20_xor_interleaved4 has finished the tail loop of 255 bytes after
\* 4 iterations, the last one of 63 bytes
C23_Witness ==
    /\ phase = "i4" /\ Running(1, "chacha20_xor_interleaved4", "tail")
    /\ input.len = 255 /\ Top(1).len = 0
    /\ Len(SelectSeq(log[1], IsBlock)) = 4
    /\ SelectSeq(log[1], IsXor)[4].n = 63

IsN4Call(e) == e.op = "call" /\ e.fn = "chacha20_xor_neon4"
IsN4Xor(e) == e.op = "xor" /\ e.fn = "chacha20_xor_neon4"

\* C24: chacha20_xor_neon4 handles only whole 256-byte super-blocks itself
\* and never XORs a partial block; after its loop it calls
\* chacha20_xor_interleaved4 exactly once if the remainder len0 mod 256 is
\* greater than 0 and not at all otherwise, with out + off, in + off, the
\* remainder, the same key and nonce and the counter
\* (counter0 + 4 * floor(len0 / 256)) mod 2^32, where off is
\* 256 * floor(len0 / 256); and the delegated call never enters its
\* 256-byte loop.
C24_NeonDelegatesTail ==
    \A t \in Threads :
        LET calls == SelectSeq(log[t], IsN4Call)
        IN calls # <<>> =>
            LET c == calls[1]
                nsb == c.len \div 256
                xors == SelectSeq(log[t], IsN4Xor)
                tails == SelectSeq(log[t], IsI4Call)
            IN /\ \A j \in 1..Len(xors) :
                      xors[j] = [op |-> "xor", fn |-> "chacha20_xor_neon4",
                                 out |-> PtrAdd(c.out, 64 * (j - 1)),
                                 in |-> PtrAdd(c.in, 64 * (j - 1)), n |-> 64]
               /\ Len(xors) <= 4 * nsb
               /\ Len(tails) <= 1
               /\ tails # <<>> =>
                      /\ c.len % 256 > 0
                      /\ Len(xors) = 4 * nsb
                      /\ tails[1] = [op |-> "call", fn |-> "chacha20_xor_interleaved4",
                                     out |-> PtrAdd(c.out, 256 * nsb),
                                     in |-> PtrAdd(c.in, 256 * nsb),
                                     len |-> c.len % 256, key |-> c.key, nonce |-> c.nonce,
                                     counter |-> ADD32(c.counter, ToU32(4 * nsb))]
               /\ Depth(t) = 0 =>
                      /\ Len(xors) = 4 * nsb
                      /\ Len(tails) = (IF c.len % 256 > 0 THEN 1 ELSE 0)
               /\ \A d \in 1..Depth(t) :
                      stack[t][d].fn = "chacha20_xor_interleaved4"
                          => stack[t][d].pc \in {"loop", "tail", "tailxor"}

\* chacha20_xor_neon4 has returned from 257 bytes at counter 0xFFFFFFFE: it
\* XORed 4 blocks and delegated the last byte at offset 256 with counter 2
C24_Witness ==
    /\ Returned("neon4") /\ input.len = 257 /\ input.counter = U32(65535, 65534)
    /\ Len(SelectSeq(log[1], IsN4Xor)) = 4
    /\ SelectSeq(log[1], IsI4Call)[1].counter = U32(0, 2)
    /\ SelectSeq(log[1], IsI4Call)[1].len = 1

IsVBlock(e) == e.op = "vblock"

\* C25: in each super-block of chacha20_xor_neon4 the 4 constant, 8 key and
\* 3 nonce vectors hold one value broadcast to all 4 lanes, the counter
\* vector holds counter, counter + 1, counter + 2, counter + 3 in lanes
\* 0..3, and after the rounds and the feed-forward the gather stores lane i
\* of the vector of word w as the little-endian bytes 4w..4w+3 of keystream
\* block i, for every w in 0..15 and i in 0..3; block i is then XORed
\* against the input bytes off+64i .. off+64i+63.
C25_NeonLayoutAndGather ==
    \A t \in Threads :
        LET calls == SelectSeq(log[t], IsN4Call)
            gens == SelectSeq(log[t], IsVBlock)
            layout == StateLayout(input)
        IN (calls # <<>> /\ gens # <<>>) =>
            LET c == calls[1]
                done == Len(gens)
                in == gens[done].in
                ks == arr[Storage(t, Depth(t))].blocks
                ctr == ADD32(c.counter, ToU32(4 * (done - 1)))
            IN /\ \A w \in (1..16) \ {13} :
                      in[w] = <<layout[w], layout[w], layout[w], layout[w]>>
               /\ in[13] = <<ctr, ADD32(ctr, ToU32(1)), ADD32(ctr, ToU32(2)),
                             ADD32(ctr, ToU32(3))>>
               /\ (Running(t, "chacha20_xor_neon4", "xor") /\ Top(t).k = 0) =>
                      LET xs == NeonFeedForward(in)
                      IN \A w \in 0..15 : \A i \in 0..3 :
                             LEWord(ks[i + 1][(4 * w) + 1], ks[i + 1][(4 * w) + 2],
                                    ks[i + 1][(4 * w) + 3], ks[i + 1][(4 * w) + 4])
                                 = xs[w + 1][i + 1]
               /\ (Running(t, "chacha20_xor_neon4", "loop") /\ c.out.buf # c.in.buf) =>
                      \A i \in 0..3 :
                          LET o == (256 * (done - 1)) + (64 * i)
                          IN SubSeq(mem[c.out.buf], c.out.off + o + 1, c.out.off + o + 64)
                               = XorBytes(mem[c.in.buf], c.in.off + o, ks[i + 1], 64)

\* chacha20_xor_neon4 has gathered the 4 blocks of its first super-block at
\* counter 0xFFFFFFFE and not yet XORed them
C25_Witness ==
    /\ phase = "neon4" /\ Running(1, "chacha20_xor_neon4", "xor") /\ Top(1).k = 0
    /\ input.counter = U32(65535, 65534) /\ Top(1).off = 0
    /\ SelectSeq(log[1], IsVBlock)[1].in[13] =
           <<U32(65535, 65534), U32(65535, 65535), U32(0, 0), U32(0, 1)>>
    /\ arr[Slot(1)].blocks[1] # arr[Slot(1)].blocks[4]

\* The counters 0xFFFFFFFE, 0xFFFFFFFF, 0, 1
Straddle == <<U32(65535, 65534), U32(65535, 65535), U32(0, 0), U32(0, 1)>>

\* C26: counter arithmetic is modulo 2^32 inside a 4-block batch too: with
\* counter 0xFFFFFFFE and at least 256 bytes, chacha20_xor_interleaved4 and
\* chacha20_xor_neon4 use the counters 0xFFFFFFFE, 0xFFFFFFFF, 0, 1 for the
\* four blocks of the first batch, return like any other call, and produce
\* the bytes chacha20_xor produces; the blocks of the wrapped counters 0 and
\* 1 are the keystream of the counters 0 and 1.
C26_BatchStraddlesWrap ==
    (input.counter = U32(65535, 65534) /\ input.len >= 256) =>
        /\ Returned("i4") =>
               /\ SubSeq(Word12s(SelectSeq(log[1], IsGen)), 1, 4) = Straddle
               /\ Out("I") = Out("S")
               /\ SubSeq(mem.I, 129, 192) = XorBytes(mem.P, 128, KS(U32(0, 0)), 64)
               /\ SubSeq(mem.I, 193, 256) = XorBytes(mem.P, 192, KS(U32(0, 1)), 64)
        /\ Returned("neon4") =>
               /\ SubSeq(Word12s(SelectSeq(log[1], IsGen)), 1, 4) = Straddle
               /\ Out("N") = Out("S")
               /\ SubSeq(mem.N, 129, 192) = XorBytes(mem.P, 128, KS(U32(0, 0)), 64)
               /\ SubSeq(mem.N, 193, 256) = XorBytes(mem.P, 192, KS(U32(0, 1)), 64)

\* chacha20_xor_neon4 has returned from 256 bytes that started at counter
\* 0xFFFFFFFE: one vector generation, whose lanes straddle 2^32
C26_Witness ==
    /\ Returned("neon4") /\ input.counter = U32(65535, 65534) /\ input.len = 256
    /\ Len(SelectSeq(log[1], IsGen)) = 1
    /\ SelectSeq(log[1], IsGen)[1].in[13] = Straddle
    /\ mem.N[129] = XOR8(mem.P[129], KS(U32(0, 0))[1])

\* C27: the keystream depends only on (key, nonce, counter, position) and
\* never on the data: for two calls of a path with the same key, nonce,
\* counter and length on the different inputs P and B, the output XOR the
\* input is the same at every index below the length; in chacha20_xor,
\* chacha20_xor_interleaved4 and chacha20_xor_neon4 (into D) and in
\* chacha20_xor_best (into R).
C27_KeystreamIgnoresData ==
    /\ Returned("other") =>
           \A i \in 1..input.len :
               XOR8(mem.D[i], mem.B[i]) = XOR8(mem[OutBufOfPath(sel.path)][i], mem.P[i])
    /\ Returned("again") =>
           \A i \in 1..input.len :
               XOR8(mem.R[i], mem.B[i]) = XOR8(mem.B[i], mem.P[i])

\* chacha20_xor_neon4 has returned from 1024 bytes of B, which differs from
\* P in its first and last byte
C27_Witness ==
    /\ Returned("other") /\ sel.path = "chacha20_xor_neon4" /\ input.len = 1024
    /\ mem.B[1] # mem.P[1] /\ mem.B[1024] # mem.P[1024]
    /\ XOR8(mem.D[1024], mem.B[1024]) = XOR8(mem.N[1024], mem.P[1024])

\* The output buffers the caller never uses as an input of the same length
OutputBuffers == {"S", "I", "N", "B", "R", "Q", "C", "D"}

\* C28: in every path and for every length len, each output index 0..len-1
\* is written exactly once, in increasing index order (the XORs of a call
\* follow one another without gap or overlap from index 0 to index len), no
\* index >= len of the output is written and no index >= len of the input
\* is read; and at every loop head the offset plus the remaining length is
\* the len the function was called with.
C28_EachIndexOnce ==
    /\ \A t \in Threads :
           log[t] # <<>> =>
               LET c == log[t][1]
                   xors == SelectSeq(log[t], IsXor)
                   calls == SelectSeq(log[t], IsCall)
                   Written(j) == IF j = 0 THEN 0
                                 ELSE (xors[j].out.off - c.out.off) + xors[j].n
               IN /\ \A j \in 1..Len(xors) :
                         /\ xors[j].n >= 1
                         /\ xors[j].out = PtrAdd(c.out, Written(j - 1))
                         /\ xors[j].in = PtrAdd(c.in, Written(j - 1))
                         /\ Written(j) <= c.len
                  /\ Depth(t) = 0 => Written(Len(xors)) = c.len
                  /\ \A d \in 1..Depth(t) :
                         stack[t][d].pc \in {"loop", "tail", "tailcall"} =>
                             stack[t][d].off + stack[t][d].len = calls[d].len
    /\ \A b \in OutputBuffers : \A j \in (input.len + 1)..Len(mem[b]) : mem[b][j] = 170

\* chacha20_xor_interleaved4 has returned from 257 bytes: 4 XORs of 64
\* bytes and one of 1 byte, and the byte after the output is untouched
C28_Witness ==
    /\ Returned("i4") /\ input.len = 257
    /\ Len(SelectSeq(log[1], IsXor)) = 5
    /\ SelectSeq(log[1], IsXor)[5] = [op |-> "xor", fn |-> "chacha20_xor_interleaved4",
                                      out |-> Ptr("I", 256), in |-> Ptr("P", 256), n |-> 1]
    /\ mem.I[257] # 170 /\ mem.I[258] = 170

\* ceil(n / 64)
BlocksOf(n) == (n + 63) \div 64

\* C29: for every length len, chacha20_xor and chacha20_xor_interleaved4
\* each call the block core exactly ceil(len / 64) times in one call, in
\* chacha20_xor_interleaved4 4 * floor(len / 256) times in the super-block
\* loop and ceil((len mod 256) / 64) times in the tail; every generated
\* block has at least one byte XORed into the output; and the counter at
\* the return is (counter0 + ceil(len / 64)) mod 2^32.
C29_BlockCount ==
    \A t \in Threads :
        (CalledPath(t, "chacha20_xor") \/ CalledPath(t, "chacha20_xor_interleaved4")) =>
            LET c == log[t][1]
                blocks == SelectSeq(log[t], IsBlock)
                xors == SelectSeq(log[t], IsXor)
                last == ADD32(c.counter, ToU32(BlocksOf(c.len)))
            IN /\ Len(blocks) <= BlocksOf(c.len)
               /\ Len(xors) <= Len(blocks)
               /\ \A j \in 1..Len(xors) : xors[j].n >= 1
               /\ Depth(t) = 0 =>
                      /\ Len(blocks) = BlocksOf(c.len)
                      /\ Len(blocks) = (4 * (c.len \div 256)) + BlocksOf(c.len % 256)
                      /\ Len(xors) = Len(blocks)
               /\ (Running(t, "chacha20_xor", "loop") /\ Top(t).len = 0) =>
                      arr[Slot(t)].st[13] = last
               /\ (Running(t, "chacha20_xor_interleaved4", "tail") /\ Top(t).len = 0) =>
                      /\ Top(t).counter = last
                      /\ Len(blocks) - (4 * (c.len \div 256)) = BlocksOf(c.len % 256)

\* chacha20_xor_interleaved4 is about to return from 257 bytes at counter
\* 0xFFFFFFFE: 5 blocks, and the counter is 3
C29_Witness ==
    /\ phase = "i4" /\ Running(1, "chacha20_xor_interleaved4", "tail") /\ Top(1).len = 0
    /\ input.len = 257 /\ input.counter = U32(65535, 65534)
    /\ Len(SelectSeq(log[1], IsBlock)) = 5 /\ Top(1).counter = U32(0, 3)

\* Byte j (from 1) of buffer b is one of the len output bytes of the call
\* thread t is in
InOutputOf(t, b, j) ==
    /\ Depth(t) > 0
    /\ log[t][1].out.buf = b
    /\ j > log[t][1].out.off
    /\ j <= log[t][1].out.off + log[t][1].len

\* A step changes no byte but output bytes of a call that is running
OnlyOutputChanges ==
    \A b \in DOMAIN mem :
        mem'[b] # mem[b] =>
            \A j \in 1..Len(mem[b]) :
                mem'[b][j] # mem[b][j] => \E t \in Threads : InOutputOf(t, b, j)

\* C30: a call of the transform changes nothing but the len bytes of the
\* output buffer, in every path: the 32 key bytes and the 12 nonce bytes
\* always have the values the caller gave them, and so has the input P,
\* which no call has as its output; every other buffer changes only where
\* it is the output of a running call.
C30_FrameEffect ==
    /\ [](/\ mem.key = input.key
          /\ mem.nonce = input.nonce
          /\ mem.P = Pattern(input.pat, input.len + Slack))
    /\ [][OnlyOutputChanges]_vars

\* chacha20_xor_interleaved4 has returned from 255 bytes of the RFC
\* plaintext pattern: its output is written, key, nonce and input are as
\* before
C30_Witness ==
    /\ Returned("i4") /\ input.len = 255 /\ input.counter = U32(0, 1)
    /\ mem.I[255] # 170
    /\ mem.key = KeyRFC /\ mem.nonce = NonceRFC /\ mem.P = Pattern(0, 255 + Slack)

====
